---- MODULE Spec2Model ----
(***************************************************************************)
(* Timetable construction engine of the Timetable-Management-System:       *)
(* AITimetableGenerator (utils/aiTimetableGenerator), the plain            *)
(* TimetableGenerator, and the advisory GeminiConstraintAnalyzer as far as *)
(* the generator depends on it.                                            *)
(*                                                                         *)
(* A time string such as '8:10-9:10' is modelled by the list of its        *)
(* '-'-separated parts, each part being <<h, m>> for 'h:mm' and <<>> for a *)
(* part with no digits; so '8:10-9:10' is <<<<8,10>>,<<9,10>>>> and a      *)
(* string like 'TBD' is <<<<>>>>.  String equality is tuple equality.      *)
(***************************************************************************)
EXTENDS Integers, Sequences, FiniteSets, TLC

VARIABLES
  subjects,        \* this.subjects
  faculty,         \* this.faculty
  classrooms,      \* this.classrooms
  labs,            \* this.labs
  constraints,     \* this.constraints
  generatedSlots,  \* this.generatedSlots
  conflicts,       \* this.conflicts
  analysisResult,  \* this.analysisResult
  unscheduledLectures, \* the lecture pool of the running generation call
  sortedPool,      \* scheduleLecturesWithAI's sorted copy of the lecture pool
  unscheduledLabs, \* the lab pool of the running generation call
  pc,              \* position of the generation call
  path,            \* "ai" | "fallback": which code path the call is on
  cell,            \* <<day index, band index>> of the loop the call is in
  recIdx,          \* index of the next recommendation in Phase 0
  result,          \* what generateTimetable returned (per call)
  advisor,         \* what the external advisory step answers (per call)
  cache,           \* GeminiConstraintAnalyzer.cache (process-wide)
  now,             \* Date.now()
  call,            \* the last direct call of a helper: [fn, args, ret]
  suspended,       \* invocations of generateTimetable waiting at the advisory call
  swapsMade        \* optimizeDistribution: swapsMade (equal to i inside the loop)

vars == <<subjects, faculty, classrooms, labs, constraints, generatedSlots,
          conflicts, analysisResult, unscheduledLectures, sortedPool,
          unscheduledLabs, pc, path, cell, recIdx, result, advisor, cache,
          now, call, suspended, swapsMade>>

inputs == <<subjects, faculty, classrooms, labs, constraints>>

-----------------------------------------------------------------------------
(* Bounds of the model *)

MaxTheoryHours == 2
MaxRecs == 2
MaxClock == 2
MaxSoloHours == 18

-----------------------------------------------------------------------------
(* Time grid *)

Band(h1, m1, h2, m2) == << <<h1, m1>>, <<h2, m2>> >>

DAYS == <<"Monday", "Tuesday", "Wednesday", "Thursday", "Friday", "Saturday">>

MORNING_THEORY_SLOTS ==
  << Band(8,10,9,10), Band(9,10,10,10), Band(10,25,11,20), Band(11,20,12,15),
     Band(1,5,2,0), Band(2,0,2,55) >>
AFTERNOON_THEORY_SLOTS ==
  << Band(10,25,11,20), Band(11,20,12,15), Band(1,5,2,0), Band(2,0,2,55),
     Band(3,5,4,0), Band(4,0,4,55) >>
MORNING_LAB_SLOTS == << Band(8,10,10,10), Band(10,25,12,15), Band(1,5,2,55) >>
AFTERNOON_LAB_SLOTS == << Band(10,25,12,15), Band(1,5,2,55), Band(3,5,4,55) >>
ALL_THEORY_SLOTS ==
  << Band(8,10,9,10), Band(9,10,10,10), Band(10,25,11,20), Band(11,20,12,15),
     Band(1,5,2,0), Band(2,0,2,55), Band(3,5,4,0), Band(4,0,4,55) >>

\* Array.prototype.indexOf, 0-based, -1 when absent
IndexOf(seq, x) ==
  IF \E i \in 1..Len(seq) : seq[i] = x
  THEN (CHOOSE i \in 1..Len(seq) : seq[i] = x /\ \A j \in 1..(i-1) : seq[j] # x) - 1
  ELSE -1

Includes(seq, x) == \E i \in 1..Len(seq) : seq[i] = x

\* the value NaN of a failed parseInt (every HHMM value is >= 0)
NaN == 0 - 1

\* parseInt(t.replace(':', ''), 10) of one part of a time string
ParseHHMM(tok) == IF Len(tok) = 2 THEN tok[1] * 100 + tok[2] ELSE NaN

\* const [start, end] = time.split('-').map(...): a missing part is undefined
TimePart(time, i) == IF i <= Len(time) THEN ParseHHMM(time[i]) ELSE NaN

MathMax(a, b) == IF a = NaN \/ b = NaN THEN NaN ELSE IF a >= b THEN a ELSE b
MathMin(a, b) == IF a = NaN \/ b = NaN THEN NaN ELSE IF a <= b THEN a ELSE b
\* a < b of JavaScript numbers: false when either is NaN
NumLess(a, b) == a # NaN /\ b # NaN /\ a < b

\* a plausible slip: comparing the two strings as the ConstraintSolver rules do
DoTimesOverlapSameString(time1, time2) == time1 = time2

\* a plausible slip: <= in place of <, so that bands that touch overlap
DoTimesOverlapTouching(time1, time2) ==
  LET lo == MathMax(TimePart(time1, 1), TimePart(time2, 1))
      hi == MathMin(TimePart(time1, 2), TimePart(time2, 2))
  IN  NumLess(lo, hi) \/ (lo # NaN /\ lo = hi)

doTimesOverlap(time1, time2) ==
  NumLess(MathMax(TimePart(time1, 1), TimePart(time2, 1)),
          MathMin(TimePart(time1, 2), TimePart(time2, 2)))

-----------------------------------------------------------------------------
(* Helpers of AITimetableGenerator *)

TargetYear == "SE"
TargetSemester == 3
NoBatch == "none"          \* batch: undefined
BATCHES == <<"A", "B", "C">>

LabName(name) == name \o " Lab"

relevantSubjects ==
  SelectSeq(subjects, LAMBDA s : s.year = TargetYear /\ s.semester = TargetSemester)
yearClassrooms == SelectSeq(classrooms, LAMBDA c : c.assignedYear = TargetYear)

\* the Subject object a pool unit refers to (names are unique within a catalog)
SubjectOf(name) ==
  CHOOSE s \in {relevantSubjects[i] : i \in 1..Len(relevantSubjects)} : s.name = name

\* subject.faculty: null, a reference that names no faculty document
NoFaculty == "null"

getFacultyName(subject) == subject.faculty
\* typeof null === 'object', so subject.faculty.name raises a TypeError
getFacultyNameThrows(subject) == subject.faculty = NoFaculty

getSlotDuration(time) ==
  IF Includes(MORNING_LAB_SLOTS, time) \/ Includes(AFTERNOON_LAB_SLOTS, time)
  THEN 2 ELSE 1

getBatchTypeForYear(year) ==
  IF constraints.yearBatchType # "unset" THEN constraints.yearBatchType
  ELSE IF year = "BE" THEN "Afternoon" ELSE "Morning"

getLabSlotsForYear(year) ==
  IF getBatchTypeForYear(year) = "Morning" THEN MORNING_LAB_SLOTS
  ELSE AFTERNOON_LAB_SLOTS

Some(seq, P(_)) == \E i \in 1..Len(seq) : P(seq[i])
Count(seq, P(_)) == Cardinality({i \in 1..Len(seq) : P(seq[i])})

isFacultyAvailable(slots, name, day, time) ==
  ~Some(slots, LAMBDA s : s.faculty = name /\ s.day = day
                          /\ doTimesOverlap(s.time, time))

isBatchAvailable(slots, year, batch, day, time) ==
  ~Some(slots, LAMBDA s : s.year = year
                          /\ (batch = NoBatch \/ s.batch = NoBatch \/ s.batch = batch)
                          /\ s.day = day /\ doTimesOverlap(s.time, time))

isYearOccupied(slots, year, day, time) ==
  Some(slots, LAMBDA s : s.year = year /\ s.batch = NoBatch /\ s.day = day
                         /\ doTimesOverlap(s.time, time))

isRoomOccupied(slots, roomName, day, time) ==
  Some(slots, LAMBDA s : s.room = roomName /\ s.day = day
                         /\ doTimesOverlap(s.time, time))

isSlotAvailable(slots, day, time, room) ==
  ~Some(slots, LAMBDA s : s.day = day /\ doTimesOverlap(s.time, time)
                          /\ s.room = room)

\* names of the lab rooms not booked at (day, time), in this.labs order
getAvailableRooms(slots, day, time) ==
  SelectSeq(labs, LAMBDA r :
    ~Some(slots, LAMBDA s : s.day = day /\ doTimesOverlap(s.time, time)
                            /\ s.room = r))

hadConsecutiveLabForBatch(slots, year, batch, day, time) ==
  LET labSlots == getLabSlotsForYear(year)
      timeIndex == IndexOf(labSlots, time)
  IN  IF timeIndex <= 0 THEN FALSE
      ELSE Some(slots, LAMBDA s : s.type = "lab" /\ s.year = year /\ s.batch = batch
                                  /\ s.day = day /\ s.time = labSlots[timeIndex])

\* a plausible slip: the faculty check never looks at the band before
HadConsecutiveLabForFacultyNever(slots, name, day, time) == FALSE

hadConsecutiveLabForFaculty(slots, name, day, time) ==
  LET allLabSlots == MORNING_LAB_SLOTS \o AFTERNOON_LAB_SLOTS
      timeIndex == IndexOf(allLabSlots, time)
  IN  IF timeIndex <= 0 THEN FALSE
      ELSE Some(slots, LAMBDA s : s.type = "lab" /\ s.faculty = name
                                  /\ s.day = day /\ s.time = allLabSlots[timeIndex])

\* a plausible slip: the one-lab-a-day check switched off
HasLabAlreadyOccurredTodayNever(slots, year, batch, day) == FALSE

hasLabAlreadyOccurredTodayForBatch(slots, year, batch, day) ==
  Some(slots, LAMBDA s : s.type = "lab" /\ s.day = day /\ s.year = year
                         /\ s.batch = batch)

\* a plausible slip: the adjacency check switched off
HasConsecutiveSessionNever(slots, slot) == FALSE

\* The same-day theory slots of the subject, sorted by band index, hold two
\* neighbours whose indices differ by one (and the first index is not -1).
hasConsecutiveSession(slots, slot) ==
  IF slot.type # "theory" THEN FALSE
  ELSE LET potential == Append(slots, slot)
           idx == {IndexOf(ALL_THEORY_SLOTS, potential[i].time) :
                     i \in {j \in 1..Len(potential) :
                              /\ potential[j].day = slot.day
                              /\ potential[j].subject = slot.subject
                              /\ potential[j].year = slot.year
                              /\ potential[j].type = "theory"}}
       IN  \E c \in idx : c # -1 /\ (c + 1) \in idx

\* a plausible slip: the weekly cap reached one session early
TheoryCapReachedEarly(count, maxAllowed) == count + 1 >= maxAllowed
TheoryCapReached(count, maxAllowed) == count >= maxAllowed

\* a plausible slip: the weekly lab cap dropped
LabCapReachedNever(count) == FALSE
LabCapReached(count) == count >= 1

\* subjectDef?.theoryHours || 3
MaxAllowedTheory(slot) ==
  LET defs == SelectSeq(subjects, LAMBDA s : s.name = slot.subject /\ s.year = slot.year)
  IN  IF Len(defs) = 0 THEN 3
      ELSE IF defs[1].theoryHours = 0 THEN 3 ELSE defs[1].theoryHours

validateSlot(slots, slot) ==
  LET basicConflict ==
        Some(slots, LAMBDA e :
          \/ (e.faculty = slot.faculty /\ e.day = slot.day
              /\ doTimesOverlap(e.time, slot.time))
          \/ (e.room = slot.room /\ e.day = slot.day
              /\ doTimesOverlap(e.time, slot.time))
          \/ (e.year = slot.year /\ e.day = slot.day
              /\ doTimesOverlap(e.time, slot.time)
              /\ (slot.batch = NoBatch \/ e.batch = NoBatch \/ e.batch = slot.batch)))
      weeklyTheoryCount ==
        Count(slots, LAMBDA s : s.type = "theory" /\ s.subject = slot.subject
                                /\ s.year = slot.year)
      weeklyLabCount ==
        Count(slots, LAMBDA s : s.type = "lab" /\ s.subject = slot.subject
                                /\ s.year = slot.year /\ s.batch = slot.batch)
  IN  /\ ~basicConflict
      /\ ~(slot.type = "theory" /\ hasConsecutiveSession(slots, slot))
      /\ ~(slot.type = "theory"
           /\ TheoryCapReached(weeklyTheoryCount, MaxAllowedTheory(slot)))
      /\ ~(slot.type = "lab" /\ LabCapReached(weeklyLabCount))

Slot(day, time, subject, fac, room, type, batch, fill) ==
  [day |-> day, time |-> time, subject |-> subject, faculty |-> fac,
   room |-> room, type |-> type, year |-> TargetYear, batch |-> batch,
   duration |-> getSlotDuration(time), isFillIn |-> fill]

-----------------------------------------------------------------------------
(* Demand pools.  A lecture unit is {subject, year}: Array(n).fill(obj)    *)
(* puts the same object n times, so a unit is its subject's name.  A lab   *)
(* unit is a fresh object per (block, batch).                              *)

RECURSIVE Repeat(_, _)
Repeat(x, n) == IF n <= 0 THEN <<>> ELSE <<x>> \o Repeat(x, n - 1)

\* Array.prototype.flat of a list of lists
RECURSIVE Concat(_)
Concat(seqs) == IF Len(seqs) = 0 THEN <<>> ELSE Head(seqs) \o Concat(Tail(seqs))

\* a plausible slip: Math.floor in place of Math.ceil
LabBlocksFloor(s) == s.labHours \div 2

\* Math.ceil(labHours / 2)
LabBlocks(s) == (s.labHours + 1) \div 2

createLecturePool(subjs) ==
  Concat([i \in 1..Len(subjs) |-> Repeat(subjs[i].name, subjs[i].theoryHours)])

createLabPool(subjs) ==
  Concat([i \in 1..Len(subjs) |->
    Concat([blk \in 1..LabBlocks(subjs[i]) |->
      [b \in 1..3 |-> [subject |-> subjs[i].name, batch |-> BATCHES[b],
                       block |-> blk]]])])

RemoveAt(seq, i) == SubSeq(seq, 1, i - 1) \o SubSeq(seq, i + 1, Len(seq))
InsertAt(seq, i, x) == SubSeq(seq, 1, i - 1) \o <<x>> \o SubSeq(seq, i, Len(seq))
\* pool.findIndex(p => p === x) followed by splice(index, 1)
RemoveFirst(seq, x) ==
  IF Includes(seq, x) THEN RemoveAt(seq, IndexOf(seq, x) + 1) ELSE seq

\* aRecommendation?.confidence || 0 for a pool unit
Confidence(recs, name, type, batch) ==
  LET hits == SelectSeq(recs, LAMBDA r : r.subject = name /\ r.type = type
                                        /\ (type = "theory" \/ r.batch = batch))
  IN  IF Len(hits) = 0 THEN 0 ELSE hits[1].confidence

\* [...pool].sort((a, b) => conf(b) - conf(a)): stable, higher confidence
\* first; confs[i] is the confidence of pool[i]
RECURSIVE SortDesc(_, _)
SortDesc(pool, confs) ==
  IF Len(pool) = 0 THEN <<>>
  ELSE LET top == CHOOSE v \in {confs[i] : i \in 1..Len(pool)} :
                    \A j \in 1..Len(pool) : confs[j] <= v
           Pick(seq, keep) ==
             LET RECURSIVE P(_)
                 P(i) == IF i > Len(seq) THEN <<>>
                         ELSE (IF (confs[i] = top) = keep THEN <<seq[i]>> ELSE <<>>)
                              \o P(i + 1)
             IN  P(1)
       IN  Pick(pool, TRUE) \o SortDesc(Pick(pool, FALSE), Pick(confs, FALSE))

sortPoolByAIInsights(pool, type) ==
  IF analysisResult.isNull THEN pool
  ELSE SortDesc(pool, [i \in 1..Len(pool) |->
         IF type = "theory"
         THEN Confidence(analysisResult.recommendedSlots, pool[i], "theory", NoBatch)
         ELSE Confidence(analysisResult.recommendedSlots, pool[i].subject, "lab",
                         pool[i].batch)])

-----------------------------------------------------------------------------
(* Phase 0: advisor recommendations *)

MIN_CONFIDENCE == 70

\* the first batch with no lab of the subject yet, 'A' when all have one
\* (s.subject.includes(subject.name): no name of a catalog is part of another)
getBatchForLab(slots, subject) ==
  LET existing == {slots[i].batch : i \in {j \in 1..Len(slots) :
                     /\ slots[j].subject \in {subject.name, LabName(subject.name)}
                     /\ slots[j].type = "lab" /\ slots[j].year = TargetYear}}
      free == SelectSeq(BATCHES, LAMBDA b : b \notin existing)
  IN  IF Len(free) = 0 THEN "A" ELSE free[1]

createSlotFromRecommendation(slots, rec, subject) ==
  LET batch == IF rec.type = "lab"
               THEN (IF rec.batch # NoBatch THEN rec.batch
                     ELSE getBatchForLab(slots, subject))
               ELSE NoBatch
      type == IF Includes(MORNING_LAB_SLOTS, rec.time)
                 \/ Includes(AFTERNOON_LAB_SLOTS, rec.time)
              THEN "lab" ELSE "theory"
  IN  Slot(rec.day, rec.time,
           IF type = "lab" THEN LabName(subject.name) ELSE subject.name,
           getFacultyName(subject), rec.room, type, batch, FALSE)

\* one iteration of the loop over analysisResult.recommendedSlots
SlotsAfterRecommendation(slots, rec) ==
  LET found == SelectSeq(relevantSubjects, LAMBDA s : s.name = rec.subject)
  IN  IF rec.confidence >= MIN_CONFIDENCE /\ Len(found) > 0
         /\ isSlotAvailable(slots, rec.day, rec.time, rec.room)
      THEN LET slot == createSlotFromRecommendation(slots, rec, found[1])
           IN  IF validateSlot(slots, slot) THEN Append(slots, slot) ELSE slots
      ELSE slots

\* the iteration raises: getFacultyName is reached with a null faculty
RecommendationThrows(slots, rec) ==
  LET found == SelectSeq(relevantSubjects, LAMBDA s : s.name = rec.subject)
  IN  /\ rec.confidence >= MIN_CONFIDENCE /\ Len(found) > 0
      /\ isSlotAvailable(slots, rec.day, rec.time, rec.room)
      /\ getFacultyNameThrows(found[1])

-----------------------------------------------------------------------------
(* Phase 1: scheduleLabsConcurrently, one (day, lab band) sweep *)

LabCandidates(slots, pool, day, time) ==
  SelectSeq(pool, LAMBDA lab :
    LET fac == getFacultyName(SubjectOf(lab.subject))
    IN  /\ isBatchAvailable(slots, TargetYear, lab.batch, day, time)
        /\ isFacultyAvailable(slots, fac, day, time)
        /\ ~hasLabAlreadyOccurredTodayForBatch(slots, TargetYear, lab.batch, day)
        /\ ~hadConsecutiveLabForFaculty(slots, fac, day, time)
        /\ ~hadConsecutiveLabForBatch(slots, TargetYear, lab.batch, day, time))

\* the loop over the candidates: st = [slots, pool, fac, bat, n]
RECURSIVE LabSweep(_, _, _, _, _)
LabSweep(cands, rooms, day, time, st) ==
  IF Len(cands) = 0 \/ st.n >= Len(rooms) THEN st
  ELSE LET c == Head(cands)
           fac == getFacultyName(SubjectOf(c.subject))
           slot == Slot(day, time, LabName(c.subject), fac, rooms[st.n + 1],
                        "lab", c.batch, FALSE)
       IN  IF fac \in st.fac \/ c.batch \in st.bat
           THEN LabSweep(Tail(cands), rooms, day, time, st)
           ELSE IF validateSlot(st.slots, slot)
           THEN LabSweep(Tail(cands), rooms, day, time,
                  [slots |-> Append(st.slots, slot),
                   pool |-> RemoveFirst(st.pool, c),
                   fac |-> st.fac \cup {fac}, bat |-> st.bat \cup {c.batch},
                   n |-> st.n + 1])
           ELSE LabSweep(Tail(cands), rooms, day, time, st)

\* the body of the (day, time) loop: [slots, pool] after the sweep
LabCellResult(slots, pool, day, time, mode) ==
  LET rooms == getAvailableRooms(slots, day, time)
      found == LabCandidates(slots, pool, day, time)
      cands == IF mode = "ai" THEN sortPoolByAIInsights(found, "lab") ELSE found
  IN  IF Len(rooms) = 0 THEN [slots |-> slots, pool |-> pool]
      ELSE LET st == LabSweep(cands, rooms, day, time,
                       [slots |-> slots, pool |-> pool, fac |-> {}, bat |-> {},
                        n |-> 0])
           IN  [slots |-> st.slots, pool |-> st.pool]

\* the candidate filter raises: isBatchAvailable(...) && isFacultyAvailable(
\* getFacultyName(lab.subject), ...) reaches a unit whose subject has no faculty
LabCellThrows(slots, pool, day, time) ==
  /\ Len(getAvailableRooms(slots, day, time)) # 0
  /\ Some(pool, LAMBDA lab :
        /\ isBatchAvailable(slots, TargetYear, lab.batch, day, time)
        /\ getFacultyNameThrows(SubjectOf(lab.subject)))

-----------------------------------------------------------------------------
(* Phases 2 and 3: lecture placement, one (day, lecture band) cell *)

\* Array.prototype.findIndex, 1-based, 0 when nothing matches
FindIndex(seq, P(_)) ==
  IF \E i \in 1..Len(seq) : P(seq[i])
  THEN CHOOSE i \in 1..Len(seq) : P(seq[i]) /\ \A j \in 1..(i-1) : ~P(seq[j])
  ELSE 0

TheorySlot(name, day, time, room, fill) ==
  Slot(day, time, name, getFacultyName(SubjectOf(name)), room, "theory", NoBatch, fill)

\* the findIndex predicate shared by the three lecture passes
LectureFits(slots, name, day, time, room) ==
  /\ isFacultyAvailable(slots, getFacultyName(SubjectOf(name)), day, time)
  /\ ~hasConsecutiveSession(slots, TheorySlot(name, day, time, room, FALSE))

CellFree(slots, day, time, room) ==
  ~isYearOccupied(slots, TargetYear, day, time) /\ ~isRoomOccupied(slots, room, day, time)

\* scheduleLecturesWithAI, body of the (day, time) loop
LectureCellAI(slots, pool, sorted, day, time, room) ==
  LET same == [slots |-> slots, pool |-> pool, sorted |-> sorted]
      i == FindIndex(sorted, LAMBDA lec : LectureFits(slots, lec, day, time, room))
  IN  IF ~CellFree(slots, day, time, room) \/ i = 0 THEN same
      ELSE LET lec == sorted[i]
               slot == TheorySlot(lec, day, time, room, FALSE)
           IN  IF validateSlot(slots, slot)
               THEN [slots |-> Append(slots, slot),
                     pool |-> RemoveFirst(pool, lec),
                     sorted |-> RemoveAt(sorted, i)]
               ELSE [slots |-> slots,
                     pool |-> Append(RemoveFirst(pool, lec), lec),
                     sorted |-> Append(RemoveAt(sorted, i), lec)]

\* scheduleLecturesFallback and fillRemainingLectureSlots, body of the
\* (day, time) loop: a rejected unit is put back at its index
LectureCellPool(slots, pool, day, time, room, fill) ==
  LET same == [slots |-> slots, pool |-> pool]
      i == FindIndex(pool, LAMBDA lec : LectureFits(slots, lec, day, time, room))
  IN  IF ~CellFree(slots, day, time, room) \/ i = 0 THEN same
      ELSE LET slot == TheorySlot(pool[i], day, time, room, fill)
           IN  IF validateSlot(slots, slot)
               THEN [slots |-> Append(slots, slot), pool |-> RemoveAt(pool, i)]
               ELSE [slots |-> slots, pool |-> InsertAt(RemoveAt(pool, i), i, pool[i])]

\* findIndex raises: it reaches a unit whose subject has no faculty before
\* it finds a unit that fits
LectureCellThrows(slots, pool, day, time, room) ==
  /\ CellFree(slots, day, time, room)
  /\ \E i \in 1..Len(pool) :
        /\ getFacultyNameThrows(SubjectOf(pool[i]))
        /\ \A j \in 1..(i - 1) : ~LectureFits(slots, pool[j], day, time, room)

-----------------------------------------------------------------------------
(* Reporting and validation *)

Conflict(type, severity, kind, who, batch, n) ==
  [type |-> type, severity |-> severity, kind |-> kind, who |-> who,
   batch |-> batch, n |-> n]

\* the distinct values of a list in order of first appearance (Map/object keys)
RECURSIVE Distinct(_)
Distinct(seq) ==
  IF Len(seq) = 0 THEN <<>>
  ELSE LET init == Distinct(SubSeq(seq, 1, Len(seq) - 1))
           x == seq[Len(seq)]
       IN  IF Includes(init, x) THEN init ELSE Append(init, x)

\* a plausible slip: the remaining lecture units are not reported
ReportUnscheduledLabsOnly(lectures, labPool) ==
  [i \in 1..Len(labPool) |->
     Conflict("error", "high", "Unscheduled Lab", labPool[i].subject,
              labPool[i].batch, 1)]

reportUnscheduled(lectures, labPool) ==
  [i \in 1..Len(labPool) |->
     Conflict("error", "high", "Unscheduled Lab", labPool[i].subject,
              labPool[i].batch, 1)]
  \o LET keys == Distinct(lectures)
     IN  [i \in 1..Len(keys) |->
            Conflict("warning", "medium", "Unscheduled Lectures", keys[i], NoBatch,
                     Count(lectures, LAMBDA l : l = keys[i]))]

\* `${slot.subject}-${slot.year}${slot.batch ? '-' + slot.batch : ''}`
SubjectKey(slot) ==
  slot.subject \o "-" \o slot.year
  \o (IF slot.batch # NoBatch THEN "-" \o slot.batch ELSE "")

DayIndex(day) == IndexOf(DAYS, day)

\* the checks of one group of validateCriticalConstraints
GroupConflicts(slots, key) ==
  LET group == SelectSeq(slots, LAMBDA s : SubjectKey(s) = key)
      theorySlots == SelectSeq(group, LAMBDA s : s.type = "theory")
      labSlots == SelectSeq(group, LAMBDA s : s.type = "lab")
      slot == group[1]
      defs == SelectSeq(subjects, LAMBDA s :
                (s.name = slot.subject \/ LabName(s.name) = slot.subject)
                /\ s.year = slot.year)
      expectedTheoryHours == IF Len(defs) = 0 THEN 0 ELSE defs[1].theoryHours
      labHours == IF Len(defs) = 0 THEN 0 ELSE defs[1].labHours
      expectedLabSessions == (labHours + 1) \div 2
      sortedTheory ==
        SortDesc(theorySlots, [i \in 1..Len(theorySlots) |->
          0 - (DayIndex(theorySlots[i].day) * 100
               + IndexOf(ALL_THEORY_SLOTS, theorySlots[i].time))])
      adjacent == SelectSeq([i \in 1..(Len(sortedTheory) - 1) |-> i], LAMBDA i :
        /\ sortedTheory[i].day = sortedTheory[i + 1].day
        /\ IndexOf(ALL_THEORY_SLOTS, sortedTheory[i].time) # -1
        /\ IndexOf(ALL_THEORY_SLOTS, sortedTheory[i + 1].time)
             = IndexOf(ALL_THEORY_SLOTS, sortedTheory[i].time) + 1)
      missing == SelectSeq(BATCHES, LAMBDA b :
        ~Some(labSlots, LAMBDA l : l.batch = b))
  IN  (IF expectedTheoryHours > 0 /\ Len(theorySlots) < expectedTheoryHours
       THEN <<Conflict("warning", "medium", "theory sessions scheduled", key,
                       NoBatch, Len(theorySlots))>> ELSE <<>>)
      \o (IF Len(theorySlots) > expectedTheoryHours
          THEN <<Conflict("error", "high", "theory sessions over max", key,
                          NoBatch, Len(theorySlots))>> ELSE <<>>)
      \o [i \in 1..Len(adjacent) |->
            Conflict("error", "high", "Consecutive sessions", key, NoBatch, 1)]
      \o (IF Len(labSlots) > 0 /\ expectedLabSessions > 0
             /\ Len(labSlots) < expectedLabSessions
          THEN <<Conflict("warning", "medium", "lab sessions scheduled", key,
                          NoBatch, Len(labSlots))>> ELSE <<>>)
      \o (IF Len(labSlots) > 0 /\ Len(labSlots) > expectedLabSessions
          THEN <<Conflict("error", "high", "lab sessions over max", key,
                          NoBatch, Len(labSlots))>> ELSE <<>>)
      \o (IF Len(labSlots) > 0 /\ expectedLabSessions > 0
          THEN [i \in 1..Len(missing) |->
                  Conflict("error", "high", "Lab session missing for Batch", key,
                           missing[i], 1)]
          ELSE <<>>)

validateCriticalConstraints(slots) ==
  LET keys == Distinct([i \in 1..Len(slots) |-> SubjectKey(slots[i])])
  IN  Concat([i \in 1..Len(keys) |-> GroupConflicts(slots, keys[i])])

RECURSIVE SumSeq(_)
SumSeq(seq) == IF Len(seq) = 0 THEN 0 ELSE Head(seq) + SumSeq(Tail(seq))

validateFacultyWorkload(slots) ==
  LET names == Distinct([i \in 1..Len(slots) |-> slots[i].faculty])
      known == SelectSeq(names, LAMBDA n : Some(faculty, LAMBDA f : f.name = n))
      MaxOf(n) == faculty[FindIndex(faculty, LAMBDA f : f.name = n)].maxHoursPerDay
      DaysOf(n) == Distinct(
        LET mine == SelectSeq(slots, LAMBDA s : s.faculty = n)
        IN  [i \in 1..Len(mine) |-> mine[i].day])
      Hours(n, d) ==
        LET mine == SelectSeq(slots, LAMBDA s : s.faculty = n /\ s.day = d)
        IN  SumSeq([i \in 1..Len(mine) |-> mine[i].duration])
  IN  Concat([i \in 1..Len(known) |->
        LET over == SelectSeq(DaysOf(known[i]), LAMBDA d :
                      Hours(known[i], d) > MaxOf(known[i]))
        IN  [j \in 1..Len(over) |->
               Conflict("warning", "medium", "Faculty Load", known[i], NoBatch,
                        Hours(known[i], over[j]))]])

RoomsUsed(slots) == {slots[i].room : i \in 1..Len(slots)}

validateRoomUtilization(slots) ==
  LET totalRooms == Len(classrooms) + Len(labs)
      usedRooms == Cardinality(RoomsUsed(slots))
      names == Distinct([i \in 1..Len(slots) |-> slots[i].room])
      busy == SelectSeq(names, LAMBDA r : Count(slots, LAMBDA s : s.room = r) > 20)
  IN  (IF totalRooms = 0 \/ usedRooms * 100 < 50 * totalRooms
       THEN <<Conflict("warning", "medium", "Low room utilization",
                       "Room Utilization", NoBatch, usedRooms)>> ELSE <<>>)
      \o [i \in 1..Len(busy) |->
            Conflict("warning", "medium", "High usage", busy[i], NoBatch,
                     Count(slots, LAMBDA s : s.room = busy[i]))]

-----------------------------------------------------------------------------
(* calculateGenerationStats and the result objects *)

\* Collation ranks of the characters of a time string: '-' < ':' < digits <
\* letters; a part with no digits stands for the text 'TBD'.
DashRank == 1 - 1
ColonRank == DashRank + 1
DigitRank(d) == d + 2
LetterRanks == <<16, 13, 14>>

NumberChars(n) ==
  IF n < 10 THEN <<DigitRank(n)>> ELSE <<DigitRank(n \div 10), DigitRank(n % 10)>>
PartChars(tok) ==
  IF Len(tok) = 2
  THEN NumberChars(tok[1]) \o <<ColonRank, DigitRank(tok[2] \div 10),
                               DigitRank(tok[2] % 10)>>
  ELSE LetterRanks
RECURSIVE TimeChars(_)
TimeChars(time) ==
  IF Len(time) = 0 THEN <<>>
  ELSE IF Len(time) = 1 THEN PartChars(time[1])
  ELSE PartChars(time[1]) \o <<DashRank>> \o TimeChars(Tail(time))

\* the day names and the subject names of the catalogs in collation order
DayCollation == <<"Friday", "Monday", "Saturday", "Thursday", "Tuesday", "Wednesday">>
SubjectCollation ==
  <<"S1", "S1 Lab", "S2", "S2 Lab", "S3", "S3 Lab", "S4", "S4 Lab", "S5", "S5 Lab">>

RECURSIVE LexLess(_, _)
LexLess(a, b) ==
  IF Len(b) = 0 THEN FALSE
  ELSE IF Len(a) = 0 THEN TRUE
  ELSE IF Head(a) # Head(b) THEN Head(a) < Head(b)
  ELSE LexLess(Tail(a), Tail(b))

\* `${a.day}-${a.time}-${a.subject}`.localeCompare(`${b.day}-...`) < 0
KeyLess(a, b) ==
  LET ka == <<IndexOf(DayCollation, a.day)>> \o TimeChars(a.time)
            \o <<DashRank, 100 + IndexOf(SubjectCollation, a.subject)>>
      kb == <<IndexOf(DayCollation, b.day)>> \o TimeChars(b.time)
            \o <<DashRank, 100 + IndexOf(SubjectCollation, b.subject)>>
  IN  LexLess(ka, kb)

\* Array.prototype.sort with that comparator (stable)
RECURSIVE SortSlots(_)
SortSlots(seq) ==
  IF Len(seq) = 0 THEN <<>>
  ELSE LET init == SortSlots(SubSeq(seq, 1, Len(seq) - 1))
           x == seq[Len(seq)]
           k == Count(init, LAMBDA y : ~KeyLess(x, y))
       IN  InsertAt(init, k + 1, x)

HashedFields(s) ==
  [day |-> s.day, time |-> s.time, subject |-> s.subject, faculty |-> s.faculty,
   room |-> s.room, type |-> s.type, year |-> s.year, batch |-> s.batch]

\* CryptoJS.SHA256(JSON.stringify(consistencyData)): the digest stands for
\* the text it is taken of
SHA256(data) == [kind |-> "sha256", stamp |-> 0, data |-> data]

\* `error-${Date.now()}`
ErrorHash(t) == [kind |-> "error", stamp |-> t, data |-> <<>>]

consistencyData(slots) ==
  <<TargetYear, TargetSemester,
    SortSlots([i \in 1..Len(slots) |-> HashedFields(slots[i])])>>

\* Math.round(100 * n / d), 0 when d = 0
RoundPercent(n, d) == IF d = 0 THEN 0 ELSE (200 * n + d) \div (2 * d)

EstimatedScore(confl) == IF Some(confl, LAMBDA c : c.type = "error") THEN 50 ELSE 75

calculateGenerationStats(slots, confl, analysis) ==
  [totalSlots |-> Len(slots),
   theorySlots |-> Count(slots, LAMBDA s : s.type = "theory"),
   labSlots |-> Count(slots, LAMBDA s : s.type = "lab"),
   facultyUtilization |->
     RoundPercent(Cardinality({slots[i].faculty : i \in 1..Len(slots)}), Len(faculty)),
   roomUtilization |->
     RoundPercent(Cardinality(RoomsUsed(slots)), Len(classrooms) + Len(labs)),
   constraintScore |->
     IF analysis.isNull \/ analysis.constraintScore = 0 THEN EstimatedScore(confl)
     ELSE analysis.constraintScore,
   consistencyHash |-> SHA256(consistencyData(slots))]

Analysis(confl, score, recs) ==
  [isNull |-> FALSE, conflicts |-> confl, constraintScore |-> score,
   recommendedSlots |-> recs]
NullAnalysis ==
  [isNull |-> TRUE, conflicts |-> <<>>, constraintScore |-> 0,
   recommendedSlots |-> <<>>]

getFallbackAnalysisResult(confl) == Analysis(confl, 60, <<>>)

createEmptyResult(confl, analysis, t) ==
  [slots |-> <<>>, conflicts |-> confl,
   analysisResult |-> IF analysis.isNull THEN getFallbackAnalysisResult(confl)
                      ELSE analysis,
   generationStats |->
     [totalSlots |-> 0, theorySlots |-> 0, labSlots |-> 0,
      facultyUtilization |-> 0, roomUtilization |-> 0, constraintScore |-> 0,
      consistencyHash |-> ErrorHash(t)]]

\* GeminiConstraintAnalyzer.getFallbackAnalysis
getFallbackAnalysis ==
  LET confl ==
        (IF Len(relevantSubjects) = 0
         THEN <<Conflict("error", "high", "No subjects found", TargetYear, NoBatch, 0)>>
         ELSE <<>>)
        \o (IF Len(yearClassrooms) = 0
            THEN <<Conflict("error", "high", "No classrooms assigned", TargetYear,
                            NoBatch, 0)>>
            ELSE <<>>)
  IN  Analysis(confl, IF Len(confl) = 0 THEN 85 ELSE 30, <<>>)

\* GeminiConstraintAnalyzer.generateContextHash: the cache key of a call
generateContextHash(existingSlots) == <<inputs, TargetYear, TargetSemester, existingSlots>>

-----------------------------------------------------------------------------
(* Inputs: catalogs, rooms, constraints and advisor answers *)

Subject(name, year, th, lh, fac) ==
  [name |-> name, year |-> year, semester |-> TargetSemester,
   theoryHours |-> th, labHours |-> lh, faculty |-> fac]

Staff == <<[name |-> "F1", maxHoursPerDay |-> 2], [name |-> "F2", maxHoursPerDay |-> 2]>>

FirstSubjects ==
  {Subject("S1", "SE", th, lh, "F1") : th \in 0..MaxTheoryHours, lh \in {0, 2, 4}}
SecondSubjects ==
  {Subject("S2", "SE", 1, 0, "F1"), Subject("S2", "SE", 1, 2, "F2"),
   Subject("S2", "TE", 1, 2, "F2")}

\* five lab courses, four of them taught by the same person
FiveLabCourses ==
  <<Subject("S1", "SE", 0, 2, "F1"), Subject("S2", "SE", 0, 2, "F2"),
    Subject("S3", "SE", 0, 2, "F1"), Subject("S4", "SE", 0, 2, "F1"),
    Subject("S5", "SE", 0, 2, "F1")>>

Catalogs ==
  {<<>>} \cup {<<a>> : a \in FirstSubjects}
  \cup {<<a, b>> : a \in FirstSubjects, b \in SecondSubjects}

ClassroomChoices == {<<>>, <<[name |-> "C1", assignedYear |-> "SE"]>>}
LabChoices == {<<>>, <<"L1">>, <<"L1", "L2">>}
ConstraintChoices ==
  {[yearBatchType |-> "Morning", allowBackToBackTheory |-> FALSE],
   [yearBatchType |-> "Afternoon", allowBackToBackTheory |-> TRUE],
   [yearBatchType |-> "unset", allowBackToBackTheory |-> TRUE]}

Rec(subject, day, time, room, type, confidence) ==
  [subject |-> subject, day |-> day, time |-> time, room |-> room,
   type |-> type, batch |-> NoBatch, confidence |-> confidence]

\* what parseAnalysisResponse can hand over: band times, a time off the grid,
\* a time with no digits, a lab band, a low confidence
RecPool ==
  {Rec("S1", "Monday", Band(8,10,9,10), "C1", "theory", 90),
   Rec("S1", "Monday", Band(9,10,10,10), "C1", "theory", 90),
   Rec("S1", "Monday", Band(8,30,9,30), "C1", "theory", 80),
   Rec("S1", "Monday", <<<<>>>>, "C1", "theory", 80),
   Rec("S2", "Monday", <<<<>>>>, "C1", "theory", 80),
   Rec("S1", "Monday", Band(8,10,10,10), "L1", "lab", 75),
   Rec("S1", "Tuesday", Band(8,10,9,10), "C1", "theory", 50)}

RecLists == UNION {[1..k -> RecPool] : k \in 0..MaxRecs}

\* an answer of the external model: parsed, unusable, or the call rejects
Answered(recs) == [outcome |-> "ok", score |-> 90, recs |-> recs]
Unusable == [outcome |-> "error", score |-> 0, recs |-> <<>>]
Rejects == [outcome |-> "reject", score |-> 0, recs |-> <<>>]

Scenario(subj, rooms, labRooms, cons, plan) ==
  [subjects |-> subj, classrooms |-> rooms, labs |-> labRooms,
   constraints |-> cons, advisor |-> plan]

OneClassroom == <<[name |-> "C1", assignedYear |-> "SE"]>>
MorningOnly == [yearBatchType |-> "Morning", allowBackToBackTheory |-> FALSE]

\* catalogs with a subject whose faculty reference is null: one with no
\* hours (reached only through a recommendation), one with lectures, one with labs
UnstaffedCatalogs ==
  {<<Subject("S1", "SE", 1, 0, "F1"), Subject("S2", "SE", 0, 0, NoFaculty)>>,
   <<Subject("S1", "SE", 1, 2, "F1"), Subject("S2", "SE", 1, 0, NoFaculty)>>,
   <<Subject("S1", "SE", 1, 0, "F1"), Subject("S2", "SE", 0, 2, NoFaculty)>>}

\* one lecture-only subject with up to a full week of sessions
SoloCatalogs == {<<Subject("S1", "SE", h, 0, "F1")>> : h \in 1..MaxSoloHours}

AdvisedCatalogs ==
  {<<Subject("S1", "SE", 2, 2, "F1")>>,
   <<Subject("S1", "SE", 0, 0, "F1"), Subject("S2", "SE", 1, 0, "F2")>>}

\* Subject.code is the unique key of a subject, the name is not: the catalog
\* holds S1 of the other semester of the year (one lecture a week) ahead of S1
\* of the target semester, and S2 and S3 ask for more cells than the week has
RepeatedNameCatalog ==
  <<[Subject("S1", "SE", 1, 0, "F1") EXCEPT !.semester = TargetSemester + 1],
    Subject("S1", "SE", 2, 0, "F1"), Subject("S2", "SE", 18, 0, "F2"),
    Subject("S3", "SE", 17, 0, "F2")>>

\* more lectures of one faculty than the week of the cohort has cells
CrowdedCatalogs ==
  {<<Subject("S1", "SE", 25, 0, "F1")>>,
   <<Subject("S1", "SE", 24, 0, "F1"), Subject("S2", "SE", 25, 0, "F1")>>}

Scenarios ==
  {Scenario(c, r, l, k, <<a>>) :
     c \in Catalogs, r \in ClassroomChoices, l \in LabChoices,
     k \in ConstraintChoices, a \in {Answered(<<>>), Unusable, Rejects}}
  \cup {Scenario(FiveLabCourses, OneClassroom, <<"L1">>, MorningOnly,
                 <<Answered(<<>>)>>)}
  \cup {Scenario(c, OneClassroom, <<"L1">>, MorningOnly, <<Answered(recs)>>) :
          c \in AdvisedCatalogs, recs \in RecLists}
  \cup {Scenario(c, OneClassroom, <<>>, k, <<a>>) :
          c \in SoloCatalogs, k \in ConstraintChoices,
          a \in {Answered(<<>>), Unusable, Rejects}}
  \cup {Scenario(c, OneClassroom, <<>>, MorningOnly, <<a>>) :
          c \in CrowdedCatalogs, a \in {Answered(<<>>), Rejects}}
  \cup {Scenario(RepeatedNameCatalog, OneClassroom, <<>>, MorningOnly, <<a>>) :
          a \in {Answered(<<>>), Rejects}}
  \cup {Scenario(c, OneClassroom, <<"L1">>, MorningOnly, <<a>>) :
          c \in UnstaffedCatalogs,
          a \in {Answered(recs) : recs \in RecLists} \cup {Unusable, Rejects}}

\* no helper has been called directly
NoCall == [fn |-> "none", args |-> <<>>, ret |-> <<>>]

InitWith(sc) ==
  /\ call = NoCall
  /\ suspended = 0
  /\ swapsMade = 0
  /\ subjects = sc.subjects
  /\ faculty = Staff
  /\ classrooms = sc.classrooms
  /\ labs = sc.labs
  /\ constraints = sc.constraints
  /\ advisor = sc.advisor
  /\ generatedSlots = <<>>
  /\ conflicts = <<>>
  /\ analysisResult = NullAnalysis
  /\ unscheduledLectures = <<>>
  /\ sortedPool = <<>>
  /\ unscheduledLabs = <<>>
  /\ path = "ai"
  /\ cell = <<1, 1>>
  /\ recIdx = 1
  /\ result = <<>>
  /\ cache = {}
  /\ now = 0

Init == \E sc \in Scenarios : InitWith(sc) /\ pc = "idle"

-----------------------------------------------------------------------------
(* The generation call, step by step *)

callNo == Len(result) + 1
theAnswer == advisor[callNo]
cacheKey == generateContextHash(<<>>)
Cached == {e \in cache : e.key = cacheKey}

LastCell(bands) == cell = <<Len(DAYS), Len(bands)>>
NextCell(bands) ==
  IF cell[2] < Len(bands) THEN <<cell[1], cell[2] + 1>> ELSE <<cell[1] + 1, 1>>

lectureBands ==
  IF getBatchTypeForYear(TargetYear) = "Morning" THEN MORNING_THEORY_SLOTS
  ELSE AFTERNOON_THEORY_SLOTS

\* The try block an exception raised on a code path is caught by: the body of
\* generateTimetable is one try block, and so is the body of fallbackGeneration.
UncaughtInFallback(p) == IF p = "ai" THEN "generateTimetable" ELSE "none"
Handler(p) == IF p = "ai" THEN "generateTimetable" ELSE "fallbackGeneration"

\* the step the call is at raises an exception
StepThrows ==
  \/ /\ pc = "recommendations" /\ recIdx <= Len(analysisResult.recommendedSlots)
     /\ RecommendationThrows(generatedSlots, analysisResult.recommendedSlots[recIdx])
  \/ /\ pc = "labs"
     /\ LabCellThrows(generatedSlots, unscheduledLabs, DAYS[cell[1]],
                      getLabSlotsForYear(TargetYear)[cell[2]])
  \/ /\ pc = "lectureLoop"
     /\ LectureCellThrows(generatedSlots,
                          IF path = "ai" THEN sortedPool ELSE unscheduledLectures,
                          DAYS[cell[1]], lectureBands[cell[2]], yearClassrooms[1].name)
  \/ /\ pc = "fill" /\ Len(unscheduledLectures) # 0 /\ Len(yearClassrooms) # 0
     /\ LectureCellThrows(generatedSlots, unscheduledLectures, DAYS[cell[1]],
                          ALL_THEORY_SLOTS[cell[2]], yearClassrooms[1].name)

\* generateTimetable up to the await of the advisory step
generateTimetable ==
  /\ pc = "idle"
  /\ generatedSlots' = <<>>
  /\ conflicts' = <<>>
  /\ path' = "ai"
  /\ pc' = "awaiting"
  /\ UNCHANGED <<swapsMade, suspended, call, inputs, analysisResult, unscheduledLectures, sortedPool,
                 unscheduledLabs, cell, recIdx, result, advisor, cache, now>>

\* analyzeConstraints: the model answers and the answer is parsed and cached
analyzeConstraintsAnswered ==
  /\ pc = "awaiting" /\ Cached = {} /\ theAnswer.outcome = "ok"
  /\ analysisResult' = Analysis(<<>>, theAnswer.score, theAnswer.recs)
  /\ cache' = cache \cup {[key |-> cacheKey, value |-> analysisResult']}
  /\ recIdx' = 1
  /\ pc' = "recommendations"
  /\ UNCHANGED <<swapsMade, suspended, call, inputs, generatedSlots, conflicts, unscheduledLectures, sortedPool,
                 unscheduledLabs, path, cell, result, advisor, now>>

\* analyzeConstraints: the model call or the parse fails, getFallbackAnalysis
analyzeConstraintsFailed ==
  /\ pc = "awaiting" /\ Cached = {} /\ theAnswer.outcome = "error"
  /\ analysisResult' = getFallbackAnalysis
  /\ recIdx' = 1
  /\ pc' = "recommendations"
  /\ UNCHANGED <<swapsMade, suspended, call, inputs, generatedSlots, conflicts, unscheduledLectures, sortedPool,
                 unscheduledLabs, path, cell, result, advisor, cache, now>>

\* analyzeConstraints rejects: generateTimetable's catch calls fallbackGeneration
analyzeConstraintsRejects ==
  /\ pc = "awaiting" /\ theAnswer.outcome = "reject"
  /\ path' = "fallback"
  /\ pc' = "fallback"
  /\ UNCHANGED <<swapsMade, suspended, call, inputs, generatedSlots, conflicts, analysisResult,
                 unscheduledLectures, sortedPool, unscheduledLabs, cell, recIdx,
                 result, advisor, cache, now>>

\* analyzeConstraints: cache hit
analyzeConstraintsCached ==
  /\ pc = "awaiting" /\ Cached # {} /\ theAnswer.outcome # "reject"
  /\ analysisResult' = (CHOOSE e \in Cached : TRUE).value
  /\ recIdx' = 1
  /\ pc' = "recommendations"
  /\ UNCHANGED <<swapsMade, suspended, call, inputs, generatedSlots, conflicts, unscheduledLectures, sortedPool,
                 unscheduledLabs, path, cell, result, advisor, cache, now>>

\* generateSlotsWithAI, one iteration of the loop over recommendedSlots
applyRecommendation ==
  /\ pc = "recommendations" /\ recIdx <= Len(analysisResult.recommendedSlots)
  /\ ~StepThrows
  /\ generatedSlots' =
       SlotsAfterRecommendation(generatedSlots, analysisResult.recommendedSlots[recIdx])
  /\ recIdx' = recIdx + 1
  /\ UNCHANGED <<swapsMade, suspended, call, inputs, conflicts, analysisResult, unscheduledLectures, sortedPool,
                 unscheduledLabs, pc, path, cell, result, advisor, cache, now>>

\* generateSlotsWithAI: the pools, made after the recommendations
createPools ==
  /\ pc = "recommendations" /\ recIdx > Len(analysisResult.recommendedSlots)
  /\ unscheduledLectures' = createLecturePool(relevantSubjects)
  /\ unscheduledLabs' = createLabPool(relevantSubjects)
  /\ cell' = <<1, 1>>
  /\ pc' = "labs"
  /\ UNCHANGED <<swapsMade, suspended, call, inputs, generatedSlots, conflicts, analysisResult, sortedPool,
                 path, recIdx, result, advisor, cache, now>>

\* fallbackGeneration: the pre-check fails, createEmptyResult
fallbackPrecheckFails ==
  /\ pc = "fallback"
  /\ Len(relevantSubjects) = 0 \/ Len(yearClassrooms) = 0
  /\ conflicts' = conflicts
       \o (IF Len(relevantSubjects) = 0
           THEN <<Conflict("error", "high", "No subjects", TargetYear, NoBatch, 0)>>
           ELSE <<>>)
       \o (IF Len(yearClassrooms) = 0
           THEN <<Conflict("error", "high", "No classrooms", TargetYear, NoBatch, 0)>>
           ELSE <<>>)
  /\ result' = Append(result, createEmptyResult(conflicts', analysisResult, now))
  /\ pc' = "done"
  /\ UNCHANGED <<swapsMade, suspended, call, inputs, generatedSlots, analysisResult, unscheduledLectures,
                 sortedPool, unscheduledLabs, path, cell, recIdx, advisor, cache, now>>

\* fallbackGeneration: the pre-check passes, the pools are made
fallbackGeneration ==
  /\ pc = "fallback"
  /\ Len(relevantSubjects) # 0 /\ Len(yearClassrooms) # 0
  /\ unscheduledLectures' = createLecturePool(relevantSubjects)
  /\ unscheduledLabs' = createLabPool(relevantSubjects)
  /\ cell' = <<1, 1>>
  /\ pc' = "labs"
  /\ UNCHANGED <<swapsMade, suspended, call, inputs, generatedSlots, conflicts, analysisResult, sortedPool,
                 path, recIdx, result, advisor, cache, now>>

\* scheduleLabsConcurrently, body of the (day, time) loop
scheduleLabsConcurrently ==
  /\ pc = "labs"
  /\ ~StepThrows
  /\ LET bands == getLabSlotsForYear(TargetYear)
         r == LabCellResult(generatedSlots, unscheduledLabs, DAYS[cell[1]],
                            bands[cell[2]], path)
     IN  /\ generatedSlots' = r.slots
         /\ unscheduledLabs' = r.pool
         /\ cell' = IF LastCell(bands) THEN <<1, 1>> ELSE NextCell(bands)
         /\ pc' = IF LastCell(bands) THEN "lectures" ELSE "labs"
  /\ UNCHANGED <<swapsMade, suspended, call, inputs, conflicts, analysisResult, unscheduledLectures, sortedPool,
                 path, recIdx, result, advisor, cache, now>>

\* scheduleLecturesWithAI / scheduleLecturesFallback up to the loop
beginLectures ==
  /\ pc = "lectures"
  /\ sortedPool' = IF path = "ai"
                   THEN sortPoolByAIInsights(unscheduledLectures, "theory")
                   ELSE sortedPool
  /\ cell' = <<1, 1>>
  /\ pc' = IF Len(yearClassrooms) = 0 THEN "fill" ELSE "lectureLoop"
  /\ UNCHANGED <<swapsMade, suspended, call, inputs, generatedSlots, conflicts, analysisResult,
                 unscheduledLectures, unscheduledLabs, path, recIdx, result,
                 advisor, cache, now>>

\* scheduleLecturesWithAI, body of the (day, time) loop
scheduleLecturesWithAI ==
  /\ pc = "lectureLoop" /\ path = "ai"
  /\ ~StepThrows
  /\ LET r == LectureCellAI(generatedSlots, unscheduledLectures, sortedPool,
                            DAYS[cell[1]], lectureBands[cell[2]],
                            yearClassrooms[1].name)
     IN  /\ generatedSlots' = r.slots
         /\ unscheduledLectures' = r.pool
         /\ sortedPool' = r.sorted
  /\ cell' = IF LastCell(lectureBands) THEN <<1, 1>> ELSE NextCell(lectureBands)
  /\ pc' = IF LastCell(lectureBands) THEN "fill" ELSE "lectureLoop"
  /\ UNCHANGED <<swapsMade, suspended, call, inputs, conflicts, analysisResult, unscheduledLabs, path, recIdx,
                 result, advisor, cache, now>>

\* scheduleLecturesFallback, body of the (day, time) loop
scheduleLecturesFallback ==
  /\ pc = "lectureLoop" /\ path = "fallback"
  /\ ~StepThrows
  /\ LET r == LectureCellPool(generatedSlots, unscheduledLectures, DAYS[cell[1]],
                              lectureBands[cell[2]], yearClassrooms[1].name, FALSE)
     IN  /\ generatedSlots' = r.slots
         /\ unscheduledLectures' = r.pool
  /\ cell' = IF LastCell(lectureBands) THEN <<1, 1>> ELSE NextCell(lectureBands)
  /\ pc' = IF LastCell(lectureBands) THEN "fill" ELSE "lectureLoop"
  /\ UNCHANGED <<swapsMade, suspended, call, inputs, conflicts, analysisResult, sortedPool, unscheduledLabs,
                 path, recIdx, result, advisor, cache, now>>

\* fillRemainingLectureSlots: returns on an empty pool or a missing classroom,
\* else the body of the (day, time) loop
fillRemainingLectureSlots ==
  /\ pc = "fill"
  /\ ~StepThrows
  /\ IF Len(unscheduledLectures) = 0 \/ Len(yearClassrooms) = 0
     THEN /\ pc' = "report"
          /\ UNCHANGED <<generatedSlots, unscheduledLectures, cell>>
     ELSE LET r == LectureCellPool(generatedSlots, unscheduledLectures,
                                   DAYS[cell[1]], ALL_THEORY_SLOTS[cell[2]],
                                   yearClassrooms[1].name, TRUE)
          IN  /\ generatedSlots' = r.slots
              /\ unscheduledLectures' = r.pool
              /\ cell' = IF LastCell(ALL_THEORY_SLOTS) THEN <<1, 1>>
                         ELSE NextCell(ALL_THEORY_SLOTS)
              /\ pc' = IF LastCell(ALL_THEORY_SLOTS) THEN "report" ELSE "fill"
  /\ UNCHANGED <<swapsMade, suspended, call, inputs, conflicts, analysisResult, sortedPool, unscheduledLabs,
                 path, recIdx, result, advisor, cache, now>>

\* reportUnscheduled, validateAndOptimize, calculateGenerationStats, return
returnAIResult ==
  /\ pc = "report" /\ path = "ai"
  /\ conflicts' = conflicts
       \o reportUnscheduled(unscheduledLectures, unscheduledLabs)
       \o analysisResult.conflicts
       \o validateCriticalConstraints(generatedSlots)
       \o validateFacultyWorkload(generatedSlots)
       \o validateRoomUtilization(generatedSlots)
  /\ result' = Append(result,
       [slots |-> generatedSlots, conflicts |-> conflicts',
        analysisResult |-> analysisResult,
        generationStats |->
          calculateGenerationStats(generatedSlots, conflicts', analysisResult)])
  /\ pc' = "done"
  /\ UNCHANGED <<swapsMade, suspended, call, inputs, generatedSlots, analysisResult, unscheduledLectures,
                 sortedPool, unscheduledLabs, path, cell, recIdx, advisor, cache, now>>

\* reportUnscheduled, validateCriticalConstraints, return of fallbackGeneration
returnFallbackResult ==
  /\ pc = "report" /\ path = "fallback"
  /\ conflicts' = conflicts
       \o reportUnscheduled(unscheduledLectures, unscheduledLabs)
       \o validateCriticalConstraints(generatedSlots)
  /\ result' = Append(result,
       [slots |-> generatedSlots, conflicts |-> conflicts',
        analysisResult |-> getFallbackAnalysisResult(conflicts'),
        generationStats |->
          calculateGenerationStats(generatedSlots, conflicts', analysisResult)])
  /\ pc' = "done"
  /\ UNCHANGED <<swapsMade, suspended, call, inputs, generatedSlots, analysisResult, unscheduledLectures,
                 sortedPool, unscheduledLabs, path, cell, recIdx, advisor, cache, now>>

\* generateTimetable's catch: an exception raised on the AI-assisted path
\* ends that path and fallbackGeneration is called on the same object
generateTimetableCatch ==
  /\ path = "ai" /\ StepThrows
  /\ IF Handler(path) = "generateTimetable"
     THEN pc' = "fallback" /\ path' = "fallback"
     ELSE pc' = "thrown" /\ path' = path
  /\ UNCHANGED <<swapsMade, suspended, call, inputs, generatedSlots, conflicts, analysisResult,
                 unscheduledLectures, sortedPool, unscheduledLabs, cell, recIdx,
                 result, advisor, cache, now>>

\* fallbackGeneration's catch: 'Fallback failed: ...' and createEmptyResult
fallbackGenerationCatch ==
  /\ path = "fallback" /\ StepThrows
  /\ IF Handler(path) = "fallbackGeneration"
     THEN /\ conflicts' = Append(conflicts,
               Conflict("error", "high", "Fallback failed", TargetYear, NoBatch, 0))
          /\ result' = Append(result,
               createEmptyResult(conflicts', analysisResult, now))
          /\ pc' = "done"
     ELSE pc' = "thrown" /\ UNCHANGED <<conflicts, result>>
  /\ UNCHANGED <<swapsMade, suspended, call, inputs, generatedSlots, analysisResult, unscheduledLectures,
                 sortedPool, unscheduledLabs, path, cell, recIdx, advisor, cache, now>>

Next ==
  \/ generateTimetable
  \/ analyzeConstraintsAnswered
  \/ analyzeConstraintsFailed
  \/ analyzeConstraintsRejects
  \/ applyRecommendation
  \/ createPools
  \/ fallbackPrecheckFails
  \/ fallbackGeneration
  \/ scheduleLabsConcurrently
  \/ beginLectures
  \/ scheduleLecturesWithAI
  \/ scheduleLecturesFallback
  \/ fillRemainingLectureSlots
  \/ returnAIResult
  \/ returnFallbackResult
  \/ generateTimetableCatch
  \/ fallbackGenerationCatch

Spec == Init /\ [][Next]_vars

-----------------------------------------------------------------------------
(* Properties of the schedule under construction *)

\* wall-clock minutes of 'h:mm' on the college day: hours below 8 are p.m.
Minutes(tok) == (IF tok[1] < 8 THEN tok[1] + 12 ELSE tok[1]) * 60 + tok[2]
IsRange(time) == Len(time) = 2 /\ Len(time[1]) = 2 /\ Len(time[2]) = 2
ClockOverlap(t1, t2) ==
  /\ IsRange(t1) /\ IsRange(t2)
  /\ Minutes(t1[1]) < Minutes(t2[2]) /\ Minutes(t2[1]) < Minutes(t1[2])

SharedResource(a, b) ==
  \/ a.faculty = b.faculty
  \/ a.room = b.room
  \/ (a.year = b.year /\ (a.batch = b.batch \/ a.batch = NoBatch \/ b.batch = NoBatch))

SlotPairs == {p \in (1..Len(generatedSlots)) \X (1..Len(generatedSlots)) : p[1] < p[2]}

Unadvised == \A i \in 1..Len(advisor) : advisor[i].recs = <<>>
TheoryOn(day) ==
  \E i \in 1..Len(generatedSlots) :
    generatedSlots[i].type = "theory" /\ generatedSlots[i].day = day
LabsOn(day) ==
  {i \in 1..Len(generatedSlots) :
     generatedSlots[i].type = "lab" /\ generatedSlots[i].day = day}

\* C1: with an advisor that recommends nothing, on the AI path and on the
\* fallback path, at every point of the construction no two accepted slots of
\* one day with overlapping times share the faculty, the room, or the cohort
\* with equal batches or a batch absent.
C1_NoDoubleBooking ==
  Unadvised =>
    \A p \in SlotPairs :
      LET a == generatedSlots[p[1]]
          b == generatedSlots[p[2]]
      IN  ~(a.day = b.day /\ ClockOverlap(a.time, b.time) /\ SharedResource(a, b))

\* two labs run side by side and a lecture is held the same day
C1_Witness ==
  /\ pc = "done" /\ Unadvised /\ path = "fallback"
  /\ TheoryOn("Monday")
  /\ \E i \in LabsOn("Monday"), j \in LabsOn("Monday") :
       i # j /\ generatedSlots[i].time = generatedSlots[j].time

\* C3: whatever the advisor recommends, no two accepted slots of one day whose
\* time ranges overlap or are the same string share faculty, room or cohort.
C3_AdvisedNoDoubleBooking ==
  \A p \in SlotPairs :
    LET a == generatedSlots[p[1]]
        b == generatedSlots[p[2]]
    IN  ~(/\ a.day = b.day
          /\ (a.time = b.time \/ ClockOverlap(a.time, b.time))
          /\ SharedResource(a, b))

TheoryCount(name) ==
  Count(generatedSlots, LAMBDA s : s.type = "theory" /\ s.subject = name
                                   /\ s.year = TargetYear)

\* C4: at every point of the construction, every subject of the target
\* cohort with theoryHours = H (H >= 0) has at most H accepted theory slots.
C4_TheoryCap ==
  \A i \in 1..Len(relevantSubjects) :
    TheoryCount(relevantSubjects[i].name) <= relevantSubjects[i].theoryHours

AdjacentBands(t1, t2) ==
  LET i1 == IndexOf(ALL_THEORY_SLOTS, t1)
      i2 == IndexOf(ALL_THEORY_SLOTS, t2)
  IN  i1 # -1 /\ i2 # -1 /\ (i1 = i2 + 1 \/ i2 = i1 + 1)

SameSubjectSameDay(a, b) ==
  /\ a.type = "theory" /\ b.type = "theory"
  /\ a.subject = b.subject /\ a.year = b.year /\ a.day = b.day

\* C5: in every phase and whatever allowBackToBackTheory says, no subject has
\* two theory slots of one day in adjacent bands of ALL_THEORY_SLOTS.
C5_NoAdjacentTheory ==
  \A p \in SlotPairs :
    LET a == generatedSlots[p[1]]
        b == generatedSlots[p[2]]
    IN  SameSubjectSameDay(a, b) => ~AdjacentBands(a.time, b.time)

\* back-to-back theory is allowed by the constraints, and a subject was given
\* two lectures on one day, the second by the fill-in pass or a later band
C5_Witness ==
  /\ pc = "done" /\ constraints.allowBackToBackTheory
  /\ \E p \in SlotPairs :
       SameSubjectSameDay(generatedSlots[p[1]], generatedSlots[p[2]])

\* C6: at every point of the construction there is at most one accepted lab
\* slot per (lab subject, cohort-year, batch), whatever labHours is and
\* whatever the advisor recommends.
C6_OneLabPerBatch ==
  \A p \in SlotPairs :
    LET a == generatedSlots[p[1]]
        b == generatedSlots[p[2]]
    IN  ~(/\ a.type = "lab" /\ b.type = "lab" /\ a.subject = b.subject
          /\ a.year = b.year /\ a.batch = b.batch)

\* a subject with two lab blocks: each batch got one lab, three units are left
C6_Witness ==
  /\ pc = "done"
  /\ \E i \in 1..Len(relevantSubjects) :
       /\ relevantSubjects[i].labHours = 4
       /\ \A b \in {"A", "B", "C"} :
            /\ \E j \in 1..Len(generatedSlots) :
                 /\ generatedSlots[j].type = "lab"
                 /\ generatedSlots[j].subject = LabName(relevantSubjects[i].name)
                 /\ generatedSlots[j].batch = b
            /\ \E u \in 1..Len(unscheduledLabs) :
                 /\ unscheduledLabs[u].subject = relevantSubjects[i].name
                 /\ unscheduledLabs[u].batch = b

LabBatches(name) ==
  {generatedSlots[j].batch : j \in {k \in 1..Len(generatedSlots) :
     generatedSlots[k].type = "lab" /\ generatedSlots[k].subject = LabName(name)}}

\* C7: when generateTimetable returns, every subject with an accepted lab
\* slot has accepted lab slots for all three batches A, B and C.
C7_AllBatchesCovered ==
  pc = "done" =>
    \A i \in 1..Len(relevantSubjects) :
      LabBatches(relevantSubjects[i].name) # {} =>
        {"A", "B", "C"} \subseteq LabBatches(relevantSubjects[i].name)

lastResult == result[Len(result)]
ReportedCount(kind) ==
  SumSeq(LET hits == SelectSeq(lastResult.conflicts, LAMBDA c : c.kind = kind)
         IN  [i \in 1..Len(hits) |-> hits[i].n])

\* C8: when generateTimetable returns a constructed schedule, for each pool
\* the units the pool builder emitted are as many as the accepted slots of
\* that kind plus the units reported unscheduled.
C8_PoolConservation ==
  (pc = "done" /\ lastResult.generationStats.consistencyHash.kind = "sha256") =>
    /\ Len(createLecturePool(relevantSubjects))
         = lastResult.generationStats.theorySlots
           + ReportedCount("Unscheduled Lectures")
    /\ Len(createLabPool(relevantSubjects))
         = lastResult.generationStats.labSlots + ReportedCount("Unscheduled Lab")

-----------------------------------------------------------------------------
(* Two generation calls in one process, each on a fresh generator *)

\* new AITimetableGenerator(...) on the same inputs, after the first call
newGenerator ==
  /\ pc = "done" /\ Len(result) < Len(advisor)
  /\ generatedSlots' = <<>>
  /\ conflicts' = <<>>
  /\ analysisResult' = NullAnalysis
  /\ unscheduledLectures' = <<>>
  /\ sortedPool' = <<>>
  /\ unscheduledLabs' = <<>>
  /\ path' = "ai"
  /\ cell' = <<1, 1>>
  /\ recIdx' = 1
  /\ pc' = "idle"
  /\ UNCHANGED <<swapsMade, suspended, call, inputs, result, advisor, cache, now>>

\* Date.now() moves on; only createEmptyResult reads it, so it is enough to
\* let it move between the calls
Tick ==
  /\ pc = "done" /\ Len(result) < Len(advisor)
  /\ now < MaxClock
  /\ now' = now + 1
  /\ UNCHANGED <<swapsMade, suspended, call, inputs, generatedSlots, conflicts, analysisResult,
                 unscheduledLectures, sortedPool, unscheduledLabs, pc, path, cell,
                 recIdx, result, advisor, cache>>

Answers ==
  {Answered(<<>>),
   Answered(<<Rec("S1", "Monday", Band(8,10,9,10), "C1", "theory", 90)>>),
   Unusable, Rejects}

\* the advisory call rejects when the context cannot be serialised, which the
\* inputs decide: with the same inputs it rejects in both calls or in neither
Plans ==
  {pl \in {<<a, b>> : a \in Answers, b \in Answers} :
     (pl[1] = Rejects) = (pl[2] = Rejects)}

RunScenarios ==
  {Scenario(<<Subject("S1", "SE", 2, 2, "F1")>>, r, <<"L1">>, MorningOnly, pl) :
     r \in ClassroomChoices, pl \in Plans}
  \cup {Scenario(<<Subject("S1", "SE", 1, 2, "F1"), Subject("S2", "SE", 1, 0, NoFaculty)>>,
                  OneClassroom, <<"L1">>, MorningOnly, pl) : pl \in Plans}

InitRuns == \E sc \in RunScenarios : InitWith(sc) /\ pc = "idle"

NextRuns ==
  \/ Next
  \/ analyzeConstraintsCached
  \/ newGenerator
  \/ Tick

SpecRuns == InitRuns /\ [][NextRuns]_vars

BothReturned == pc = "done" /\ Len(result) = 2
HashOf(k) == result[k].generationStats.consistencyHash

\* C9: two runs on identical inputs in which the advisor answers identically
\* (or fails identically) return identical consistencyHash values, also when
\* the run ends in the empty result.
C9_SameAdviceSameHash ==
  (BothReturned /\ advisor[1] = advisor[2]) => HashOf(1) = HashOf(2)

\* C10: two successive calls on fresh generators built from the same inputs
\* return equal consistencyHash values, whatever the advisor does in each
\* (fails, answers, or is served from the cache); stated for the calls that
\* both return a constructed schedule, where no clock enters the hash.
C10_SuccessiveCallsSameHash ==
  (BothReturned /\ HashOf(1).kind = "sha256" /\ HashOf(2).kind = "sha256")
    => HashOf(1) = HashOf(2)

-----------------------------------------------------------------------------
(* The plain TimetableGenerator: five days, its own bands, every year *)

PLAIN_DAYS == <<"Monday", "Tuesday", "Wednesday", "Thursday", "Friday">>
THEORY_SLOTS ==
  << Band(8,0,9,0), Band(9,0,10,0), Band(10,15,11,15), Band(11,15,12,15),
     Band(1,15,2,15), Band(2,15,3,15), Band(3,15,4,15), Band(4,15,5,15) >>
LAB_SLOTS == << Band(1,15,3,15), Band(3,15,5,15) >>
YEARS == <<"SE", "TE", "BE">>

PlainDoTimesOverlap(time1, time2) ==
  NumLess(MathMax(TimePart(time1, 1), TimePart(time2, 1)),
          MathMin(TimePart(time1, 2), TimePart(time2, 2)))

PlainSubjectOf(name) ==
  CHOOSE s \in {subjects[i] : i \in 1..Len(subjects)} : s.name = name

PlainCreateLecturePool == createLecturePool(subjects)
PlainCreateLabPool == createLabPool(subjects)

PlainIsFacultyAvailable(slots, name, day, time) ==
  ~Some(slots, LAMBDA s : s.faculty = name /\ s.day = day
                          /\ PlainDoTimesOverlap(s.time, time))

PlainIsBatchAvailable(slots, year, batch, day, time) ==
  ~Some(slots, LAMBDA s : s.year = year
                          /\ (batch = NoBatch \/ s.batch = NoBatch \/ s.batch = batch)
                          /\ s.day = day /\ PlainDoTimesOverlap(s.time, time))

PlainGetAvailableRooms(slots, day, time) ==
  SelectSeq(labs, LAMBDA r :
    ~Some(slots, LAMBDA s : s.day = day /\ PlainDoTimesOverlap(s.time, time)
                            /\ s.room = r))

PlainHadConsecutiveLabForBatch(slots, year, batch, day, time) ==
  /\ time = Band(3,15,5,15)
  /\ Some(slots, LAMBDA s : s.type = "lab" /\ s.year = year /\ s.batch = batch
                            /\ s.day = day /\ s.time = Band(1,15,3,15))

PlainHadConsecutiveLabForFaculty(slots, name, day, time) ==
  /\ time = Band(3,15,5,15)
  /\ Some(slots, LAMBDA s : s.type = "lab" /\ s.faculty = name
                            /\ s.day = day /\ s.time = Band(1,15,3,15))

wasPreviousSlotSameSubject(slots, name, year, day, time) ==
  LET currentIndex == IndexOf(THEORY_SLOTS, time)
  IN  IF currentIndex <= 0 \/ time = Band(1,15,2,15) THEN FALSE
      ELSE Some(slots, LAMBDA s : s.year = year /\ s.day = day /\ s.subject = name
                                  /\ s.time = THEORY_SLOTS[currentIndex])

hasLectureAlreadyOccurredToday(slots, name, year, day) ==
  Some(slots, LAMBDA s : s.type = "theory" /\ s.day = day /\ s.year = year
                         /\ s.subject = name)

PlainSlot(day, time, subject, fac, room, type, year, batch, duration) ==
  [day |-> day, time |-> time, subject |-> subject, faculty |-> fac,
   room |-> room, type |-> type, year |-> year, batch |-> batch,
   duration |-> duration, isFillIn |-> FALSE]

\* the candidates of one (day, time) cell of scheduleLabs, filtered once
PlainLabCandidates(slots, pool, day, time) ==
  SelectSeq(pool, LAMBDA lab :
    LET subj == PlainSubjectOf(lab.subject)
    IN  /\ PlainIsBatchAvailable(slots, subj.year, lab.batch, day, time)
        /\ PlainIsFacultyAvailable(slots, getFacultyName(subj), day, time)
        /\ ~PlainHadConsecutiveLabForFaculty(slots, getFacultyName(subj), day, time)
        /\ ~PlainHadConsecutiveLabForBatch(slots, subj.year, lab.batch, day, time))

\* the loop over the candidates: each takes availableLabRooms.shift()
RECURSIVE PlainLabSweep(_, _, _, _, _)
PlainLabSweep(cands, rooms, day, time, st) ==
  IF Len(cands) = 0 \/ Len(rooms) = 0 THEN st
  ELSE LET c == Head(cands)
           subj == PlainSubjectOf(c.subject)
           slot == PlainSlot(day, time, LabName(subj.name), getFacultyName(subj),
                             Head(rooms), "lab", subj.year, c.batch, 2)
       IN  PlainLabSweep(Tail(cands), Tail(rooms), day, time,
             [slots |-> Append(st.slots, slot), pool |-> RemoveFirst(st.pool, c)])

\* the loop over the years of one (day, time) cell of scheduleLectures
RECURSIVE PlainLectureYears(_, _, _, _)
PlainLectureYears(years, day, time, st) ==
  IF Len(years) = 0 THEN st
  ELSE LET year == Head(years)
           rooms == SelectSeq(classrooms, LAMBDA c : c.assignedYear = year)
           i == FindIndex(st.pool, LAMBDA lec :
                  /\ PlainSubjectOf(lec).year = year
                  /\ PlainIsFacultyAvailable(st.slots,
                       getFacultyName(PlainSubjectOf(lec)), day, time)
                  /\ ~wasPreviousSlotSameSubject(st.slots, lec, year, day, time)
                  /\ ~hasLectureAlreadyOccurredToday(st.slots, lec, year, day))
       IN  IF ~PlainIsBatchAvailable(st.slots, year, NoBatch, day, time)
              \/ Len(rooms) = 0 \/ i = 0
           THEN PlainLectureYears(Tail(years), day, time, st)
           ELSE PlainLectureYears(Tail(years), day, time,
                  [slots |-> Append(st.slots,
                     PlainSlot(day, time, st.pool[i],
                               getFacultyName(PlainSubjectOf(st.pool[i])),
                               rooms[1].name, "theory", year, NoBatch, 1)),
                   pool |-> RemoveAt(st.pool, i)])

PlainLastCell(days, bands) == cell = <<Len(days), Len(bands)>>

\* TimetableGenerator.generateTimetable up to scheduleLabs
plainGenerateTimetable ==
  /\ pc = "plainIdle"
  /\ generatedSlots' = <<>>
  /\ conflicts' = <<>>
  /\ unscheduledLectures' = PlainCreateLecturePool
  /\ unscheduledLabs' = PlainCreateLabPool
  /\ cell' = <<1, 1>>
  /\ pc' = "plainLabs"
  /\ UNCHANGED <<swapsMade, suspended, call, inputs, analysisResult, sortedPool, path, recIdx, result, advisor,
                 cache, now>>

\* scheduleLabs, body of the (day, time) loop
scheduleLabs ==
  /\ pc = "plainLabs"
  /\ LET day == PLAIN_DAYS[cell[1]]
         time == LAB_SLOTS[cell[2]]
         st == PlainLabSweep(
                 PlainLabCandidates(generatedSlots, unscheduledLabs, day, time),
                 PlainGetAvailableRooms(generatedSlots, day, time), day, time,
                 [slots |-> generatedSlots, pool |-> unscheduledLabs])
     IN  /\ generatedSlots' = st.slots
         /\ unscheduledLabs' = st.pool
  /\ cell' = IF PlainLastCell(PLAIN_DAYS, LAB_SLOTS) THEN <<1, 1>>
             ELSE NextCell(LAB_SLOTS)
  /\ pc' = IF PlainLastCell(PLAIN_DAYS, LAB_SLOTS) THEN "plainLectures"
           ELSE "plainLabs"
  /\ UNCHANGED <<swapsMade, suspended, call, inputs, conflicts, analysisResult, unscheduledLectures, sortedPool,
                 path, recIdx, result, advisor, cache, now>>

\* scheduleLectures, body of the (day, time) loop
scheduleLectures ==
  /\ pc = "plainLectures"
  /\ LET st == PlainLectureYears(YEARS, PLAIN_DAYS[cell[1]], THEORY_SLOTS[cell[2]],
                 [slots |-> generatedSlots, pool |-> unscheduledLectures])
     IN  /\ generatedSlots' = st.slots
         /\ unscheduledLectures' = st.pool
  /\ cell' = IF PlainLastCell(PLAIN_DAYS, THEORY_SLOTS) THEN <<1, 1>>
             ELSE NextCell(THEORY_SLOTS)
  /\ pc' = IF PlainLastCell(PLAIN_DAYS, THEORY_SLOTS) THEN "plainReport"
           ELSE "plainLectures"
  /\ UNCHANGED <<swapsMade, suspended, call, inputs, conflicts, analysisResult, unscheduledLabs, sortedPool,
                 path, recIdx, result, advisor, cache, now>>

\* reportUnscheduled and the return of TimetableGenerator.generateTimetable
plainReturn ==
  /\ pc = "plainReport"
  /\ conflicts' = conflicts \o reportUnscheduled(unscheduledLectures, unscheduledLabs)
  /\ result' = Append(result, [slots |-> generatedSlots, conflicts |-> conflicts'])
  /\ pc' = "plainDone"
  /\ UNCHANGED <<swapsMade, suspended, call, inputs, generatedSlots, analysisResult, unscheduledLectures,
                 sortedPool, unscheduledLabs, path, cell, recIdx, advisor, cache, now>>

PlainSubjects ==
  {Subject("S1", "SE", th, lh, "F1") : th \in 0..MaxTheoryHours, lh \in {0, 2, 4}}
PlainSecondSubjects ==
  {Subject("S2", y, 1, 2, f) : y \in {"SE", "TE"}, f \in {"F1", "F2"}}
PlainCatalogs ==
  {<<>>} \cup {<<a>> : a \in PlainSubjects}
  \cup {<<a, b>> : a \in PlainSubjects, b \in PlainSecondSubjects}
PlainClassroomChoices ==
  {<<>>, OneClassroom,
   <<[name |-> "C1", assignedYear |-> "SE"], [name |-> "C2", assignedYear |-> "TE"]>>}

InitPlain ==
  \E c \in PlainCatalogs, r \in PlainClassroomChoices, l \in LabChoices :
    /\ InitWith(Scenario(c, r, l, MorningOnly, <<>>))
    /\ pc = "plainIdle"

NextPlain ==
  \/ plainGenerateTimetable
  \/ scheduleLabs
  \/ scheduleLectures
  \/ plainReturn

SpecPlain == InitPlain /\ [][NextPlain]_vars

\* C2: in the plain TimetableGenerator no two accepted slots of one day with
\* overlapping times share the faculty or the (cohort-year, batch); within
\* one sweep of scheduleLabs no faculty and no batch gets two lab sessions.
C2_PlainNoDoubleBooking ==
  \A p \in SlotPairs :
    LET a == generatedSlots[p[1]]
        b == generatedSlots[p[2]]
    IN  ~(/\ a.day = b.day /\ ClockOverlap(a.time, b.time)
          /\ (a.faculty = b.faculty \/ (a.year = b.year /\ a.batch = b.batch)))

-----------------------------------------------------------------------------
(* Missing data, exceptions and the fallback path *)

MissingCategory(kinds) ==
  Some(lastResult.conflicts, LAMBDA c :
    c.type = "error" /\ c.severity = "high" /\ c.kind \in kinds)

\* C11: when no classroom is assigned to the target year, or no subject
\* exists for the target year and semester, generateTimetable returns an
\* empty slot list and a high-severity error conflict naming the missing
\* category, for every catalog and every advisor output.
C11_EmptyOnMissingData ==
  (pc = "done" /\ (Len(yearClassrooms) = 0 \/ Len(relevantSubjects) = 0)) =>
    /\ lastResult.slots = <<>>
    /\ Len(yearClassrooms) = 0 =>
         MissingCategory({"No classrooms", "No classrooms assigned"})
    /\ Len(relevantSubjects) = 0 =>
         MissingCategory({"No subjects", "No subjects found"})

\* fallbackGeneration on an object whose generatedSlots and conflicts are
\* empty: the three passes over all cells, st = [slots, pool, threw]
RECURSIVE FallbackLabs(_, _)
FallbackLabs(st, k) ==
  LET bands == getLabSlotsForYear(TargetYear)
      day == DAYS[((k - 1) \div Len(bands)) + 1]
      time == bands[((k - 1) % Len(bands)) + 1]
  IN  IF k > Len(DAYS) * Len(bands) \/ st.threw THEN st
      ELSE IF LabCellThrows(st.slots, st.pool, day, time)
      THEN [st EXCEPT !.threw = TRUE]
      ELSE LET r == LabCellResult(st.slots, st.pool, day, time, "fallback")
           IN  FallbackLabs([slots |-> r.slots, pool |-> r.pool, threw |-> FALSE],
                            k + 1)

RECURSIVE FallbackLectures(_, _, _, _)
FallbackLectures(st, bands, fill, k) ==
  LET day == DAYS[((k - 1) \div Len(bands)) + 1]
      time == bands[((k - 1) % Len(bands)) + 1]
      room == yearClassrooms[1].name
  IN  IF k > Len(DAYS) * Len(bands) \/ st.threw \/ (fill /\ Len(st.pool) = 0)
      THEN st
      ELSE IF LectureCellThrows(st.slots, st.pool, day, time, room)
      THEN [st EXCEPT !.threw = TRUE]
      ELSE LET r == LectureCellPool(st.slots, st.pool, day, time, room, fill)
           IN  FallbackLectures([slots |-> r.slots, pool |-> r.pool,
                                 threw |-> FALSE], bands, fill, k + 1)

FallbackFromEmpty ==
  IF Len(relevantSubjects) = 0 \/ Len(yearClassrooms) = 0
  THEN [slots |-> <<>>,
        conflicts |->
          (IF Len(relevantSubjects) = 0
           THEN <<Conflict("error", "high", "No subjects", TargetYear, NoBatch, 0)>>
           ELSE <<>>)
          \o (IF Len(yearClassrooms) = 0
              THEN <<Conflict("error", "high", "No classrooms", TargetYear,
                              NoBatch, 0)>>
              ELSE <<>>)]
  ELSE LET labsDone == FallbackLabs([slots |-> <<>>,
                                     pool |-> createLabPool(relevantSubjects),
                                     threw |-> FALSE], 1)
           lecturesDone ==
             FallbackLectures([slots |-> labsDone.slots,
                               pool |-> createLecturePool(relevantSubjects),
                               threw |-> labsDone.threw], lectureBands, FALSE, 1)
           filled == FallbackLectures(lecturesDone, ALL_THEORY_SLOTS, TRUE, 1)
       IN  IF filled.threw
           THEN [slots |-> <<>>,
                 conflicts |-> <<Conflict("error", "high", "Fallback failed",
                                          TargetYear, NoBatch, 0)>>]
           ELSE [slots |-> filled.slots,
                 conflicts |-> reportUnscheduled(filled.pool, labsDone.pool)
                               \o validateCriticalConstraints(filled.slots)]

ReturnedAsFromScratch ==
  /\ lastResult.slots = FallbackFromEmpty.slots
  /\ lastResult.conflicts = FallbackFromEmpty.conflicts

\* C12: whenever the fallback path is entered, also after an exception that
\* escaped the AI-assisted path with slots accepted, it starts from an empty
\* accepted-slot list and an empty conflict list, and the slots and conflicts
\* it returns are those of a fallback run started from scratch.
C12_FallbackFromScratch ==
  /\ pc = "fallback" => (generatedSlots = <<>> /\ conflicts = <<>>)
  /\ (pc = "done" /\ path = "fallback") => ReturnedAsFromScratch

\* when the advisory call itself rejects, nothing was accepted or recorded
\* before the fallback and the result is that of a fallback run from scratch
RejectedAsFromScratch ==
  (pc = "done" /\ path = "fallback" /\ advisor[1] = Rejects) =>
    ReturnedAsFromScratch

ResultFields == {"slots", "conflicts", "analysisResult", "generationStats"}
EmptyResultWithError(r) ==
  /\ r.slots = <<>>
  /\ r.generationStats.totalSlots = 0
  /\ Some(r.conflicts, LAMBDA c : c.type = "error" /\ c.severity = "high")

-----------------------------------------------------------------------------
(* Single-subject weeks and the batch coverage check *)

LabKeys(name) == {LabName(name) \o "-" \o TargetYear \o "-" \o b : b \in {"A", "B", "C"}}

\* C17: when the accepted lab slots of a subject cover the batches A, B and
\* C exactly once each, the conflicts returned hold no 'Lab session missing
\* for Batch' error about that subject.
C17_NoMissingBatchWhenCovered ==
  pc = "done" =>
    \A i \in 1..Len(relevantSubjects) :
      LET name == relevantSubjects[i].name
      IN  (\A b \in {"A", "B", "C"} :
             Count(lastResult.slots, LAMBDA sl :
               sl.type = "lab" /\ sl.subject = LabName(name) /\ sl.batch = b) = 1)
          => ~Some(lastResult.conflicts, LAMBDA c :
                c.kind = "Lab session missing for Batch" /\ c.who \in LabKeys(name))

-----------------------------------------------------------------------------
(* Rejected lecture candidates *)

\* the loop body about to run removes a lecture unit from the pool and
\* validateSlot rejects the slot built from it
LectureRejected ==
  /\ ~StepThrows
  /\ Len(yearClassrooms) > 0
  /\ \/ /\ pc = "lectureLoop" /\ path = "ai"
        /\ LET day == DAYS[cell[1]]
               time == lectureBands[cell[2]]
               room == yearClassrooms[1].name
               i == FindIndex(sortedPool, LAMBDA lec :
                      LectureFits(generatedSlots, lec, day, time, room))
           IN  /\ CellFree(generatedSlots, day, time, room) /\ i # 0
               /\ ~validateSlot(generatedSlots,
                                TheorySlot(sortedPool[i], day, time, room, FALSE))
     \/ /\ \/ pc = "lectureLoop" /\ path = "fallback"
           \/ pc = "fill" /\ Len(unscheduledLectures) > 0
        /\ LET day == DAYS[cell[1]]
               time == IF pc = "fill" THEN ALL_THEORY_SLOTS[cell[2]]
                       ELSE lectureBands[cell[2]]
               room == yearClassrooms[1].name
               i == FindIndex(unscheduledLectures, LAMBDA lec :
                      LectureFits(generatedSlots, lec, day, time, room))
           IN  /\ CellFree(generatedSlots, day, time, room) /\ i # 0
               /\ ~validateSlot(generatedSlots,
                                TheorySlot(unscheduledLectures[i], day, time, room,
                                           pc = "fill"))

\* C22: when validateSlot rejects a lecture candidate taken from the pool,
\* in the AI lecture pass, the fallback lecture pass or the fill-in pass, the
\* accepted slots are unchanged and the pool holds the same units in the
\* same order as before the attempt.
C22_RejectionRestoresPool ==
  [][LectureRejected =>
       /\ generatedSlots' = generatedSlots
       /\ unscheduledLectures' = unscheduledLectures]_vars

-----------------------------------------------------------------------------
(* Two invocations of generateTimetable on one generator *)

\* generateTimetable is called again on the same object while the first
\* invocation waits for analyzeConstraints: the second one runs its
\* synchronous prefix (the two assignments and the advisory call) and waits
reenterGenerateTimetable ==
  /\ pc = "awaiting" /\ suspended = 0 /\ Len(result) = 0 /\ Len(advisor) = 2
  /\ generatedSlots' = <<>>
  /\ conflicts' = <<>>
  /\ suspended' = 1
  /\ UNCHANGED <<swapsMade, call, inputs, analysisResult, unscheduledLectures, sortedPool,
                 unscheduledLabs, pc, path, cell, recIdx, result, advisor, cache, now>>

\* the advisory call of the waiting invocation settles after the other
\* invocation has returned; it was made before any answer was cached, and
\* this.generatedSlots and this.conflicts are assigned only before the await
resumeSuspended ==
  /\ pc = "done" /\ suspended = 1
  /\ suspended' = 0
  /\ analysisResult' =
       CASE theAnswer.outcome = "ok" -> Analysis(<<>>, theAnswer.score, theAnswer.recs)
         [] theAnswer.outcome = "error" -> getFallbackAnalysis
         [] OTHER -> analysisResult
  /\ path' = IF theAnswer.outcome = "reject" THEN "fallback" ELSE "ai"
  /\ pc' = IF theAnswer.outcome = "reject" THEN "fallback" ELSE "recommendations"
  /\ recIdx' = 1
  /\ cell' = <<1, 1>>
  /\ unscheduledLectures' = <<>>
  /\ sortedPool' = <<>>
  /\ unscheduledLabs' = <<>>
  /\ UNCHANGED <<swapsMade, call, inputs, generatedSlots, conflicts, result, advisor, cache, now>>

InitOverlap == \E sc \in RunScenarios : InitWith(sc) /\ pc = "idle"

NextOverlap ==
  \/ Next
  \/ reenterGenerateTimetable
  \/ resumeSuspended

SpecOverlap == InitOverlap /\ [][NextOverlap]_vars

Overlapped == pc = "done" /\ Len(result) = 2 /\ suspended = 0

\* C21: two overlapping invocations on one generator do not interfere. The
\* invocation that resumes first runs on empty lists, as it would alone; with
\* the same advisor answer the other one returns the same slots and
\* conflicts.
C21_OverlappingCallsIndependent ==
  (Overlapped /\ advisor[1] = advisor[2]) =>
    /\ result[2].slots = result[1].slots
    /\ result[2].conflicts = result[1].conflicts

-----------------------------------------------------------------------------
(* optimizeDistribution *)

maxSwaps == 20

BandIndex(slot) == IndexOf(ALL_THEORY_SLOTS, slot.time)

\* Array.prototype.sort by band index (stable)
RECURSIVE SortByBand(_)
SortByBand(seq) ==
  IF Len(seq) = 0 THEN <<>>
  ELSE LET init == SortByBand(SubSeq(seq, 1, Len(seq) - 1))
           x == seq[Len(seq)]
           k == Cardinality({j \in 1..Len(init) : BandIndex(init[j]) <= BandIndex(x)})
       IN  SubSeq(init, 1, k) \o <<x>> \o SubSeq(init, k + 1, Len(init))

\* slotsByDay[day]
slotsByDay(slots, year, day) ==
  SortByBand(SelectSeq(slots, LAMBDA s :
    s.year = year /\ s.type = "theory" /\ s.day = day))

\* the subjects counted more than once on a day, in order of first appearance
duplicateSubjects(dailySlots) ==
  SelectSeq(Distinct([k \in 1..Len(dailySlots) |-> dailySlots[k].subject]),
            LAMBDA n : Count(dailySlots, LAMBDA s : s.subject = n) > 1)

\* the second occurrence of the subject on the day
slotToMoveIndex(dailySlots, subject) ==
  LET first == FindIndex(dailySlots, LAMBDA s : s.subject = subject)
  IN  CHOOSE k \in 1..Len(dailySlots) :
        /\ dailySlots[k].subject = subject /\ k > first
        /\ \A j \in (first + 1)..(k - 1) : dailySlots[j].subject # subject

isFacultyAvailableForSwap(slots, facultyName, day, time, excludeSlotId) ==
  ~Some(slots, LAMBDA s : s.id # excludeSlotId /\ s.faculty = facultyName
                          /\ s.day = day /\ doTimesOverlap(s.time, time))

\* a plausible slip: the adjacency test of a swap switched off
WouldCreateConsecutiveNever(slots, subjectName, year, day, time, excludeSlotId) ==
  FALSE

wouldCreateConsecutive(slots, subjectName, year, day, time, excludeSlotId) ==
  LET timeIndex == IndexOf(ALL_THEORY_SLOTS, time)
      held(t) == Some(slots, LAMBDA s :
                   /\ s.id # excludeSlotId /\ s.year = year /\ s.day = day
                   /\ s.type = "theory" /\ s.time = t /\ s.subject = subjectName)
  IN  IF timeIndex = -1 THEN FALSE
      ELSE \/ timeIndex > 0 /\ held(ALL_THEORY_SLOTS[timeIndex])
           \/ timeIndex < Len(ALL_THEORY_SLOTS) - 1
              /\ held(ALL_THEORY_SLOTS[timeIndex + 2])

\* the (slotToMove, candidateSlot) pairs in the order the nested loops of one
\* iteration visit them
SwapPairs(slots, year) ==
  Concat([d \in 1..Len(DAYS) |->
    LET dailySlots == slotsByDay(slots, year, DAYS[d])
        dups == duplicateSubjects(dailySlots)
    IN  Concat([k \in 1..Len(dups) |->
          LET slotToMove == dailySlots[slotToMoveIndex(dailySlots, dups[k])]
          IN  Concat([t \in 1..Len(DAYS) |->
                LET targetDailySlots == slotsByDay(slots, year, DAYS[t])
                IN  IF t = d \/ Count(targetDailySlots,
                                      LAMBDA s : s.subject = dups[k]) >= 1
                    THEN <<>>
                    ELSE [c \in 1..Len(targetDailySlots) |->
                            [move |-> slotToMove,
                             cand |-> targetDailySlots[c]]]])])])

\* the checks between the choice of a candidate and the swap
SwapValid(slots, year, pair) ==
  LET slotToMove == pair.move
      candidateSlot == pair.cand
  IN  /\ candidateSlot.subject # slotToMove.subject
      /\ isFacultyAvailableForSwap(slots, slotToMove.faculty, candidateSlot.day,
                                   candidateSlot.time, candidateSlot.id)
      /\ isFacultyAvailableForSwap(slots, candidateSlot.faculty, slotToMove.day,
                                   slotToMove.time, slotToMove.id)
      /\ ~wouldCreateConsecutive(slots, slotToMove.subject, year, candidateSlot.day,
                                 candidateSlot.time, candidateSlot.id)
      /\ ~wouldCreateConsecutive(slots, candidateSlot.subject, year, slotToMove.day,
                                 slotToMove.time, slotToMove.id)

\* the first pair that passes the checks, or none: [found, move, cand]
FirstSwap(slots, year) ==
  LET pairs == SwapPairs(slots, year)
      k == FindIndex(pairs, LAMBDA pr : SwapValid(slots, year, pr))
  IN  IF k = 0 THEN [found |-> FALSE]
      ELSE [found |-> TRUE, move |-> pairs[k].move, cand |-> pairs[k].cand]

\* subject, faculty and semester of the two slots exchanged, found by id
SwapSlots(slots, moveId, candId) ==
  LET originalSlotIndex == FindIndex(slots, LAMBDA s : s.id = moveId)
      targetSlotIndex == FindIndex(slots, LAMBDA s : s.id = candId)
      take(a, b) == [a EXCEPT !.subject = b.subject, !.faculty = b.faculty,
                              !.semester = b.semester]
  IN  [k \in 1..Len(slots) |->
         IF k = originalSlotIndex THEN take(slots[k], slots[targetSlotIndex])
         ELSE IF k = targetSlotIndex THEN take(slots[k], slots[originalSlotIndex])
         ELSE slots[k]]

\* one iteration of the loop `for (let i = 0; i < maxSwaps; i++)` that swaps
optimizeSwap ==
  /\ pc = "optimize" /\ swapsMade < maxSwaps
  /\ LET sw == FirstSwap(generatedSlots, TargetYear)
     IN  /\ sw.found
         /\ generatedSlots' = SwapSlots(generatedSlots, sw.move.id, sw.cand.id)
  /\ swapsMade' = swapsMade + 1
  /\ UNCHANGED <<suspended, call, inputs, conflicts, analysisResult,
                 unscheduledLectures, sortedPool, unscheduledLabs, pc, path, cell,
                 recIdx, result, advisor, cache, now>>

\* an iteration without a swap breaks the loop; so does i reaching maxSwaps
optimizeEnd ==
  /\ pc = "optimize"
  /\ swapsMade = maxSwaps \/ ~FirstSwap(generatedSlots, TargetYear).found
  /\ pc' = "optimized"
  /\ UNCHANGED <<swapsMade, suspended, call, inputs, generatedSlots, conflicts,
                 analysisResult, unscheduledLectures, sortedPool, unscheduledLabs,
                 path, cell, recIdx, result, advisor, cache, now>>

\* a slot as the passes build it, with its id and semester
PlacedSlot(year, subject, fac, d, time, room, type, batch) ==
  [id |-> <<year, batch, subject, DAYS[d], time, room>>, day |-> DAYS[d],
   time |-> time, subject |-> subject, faculty |-> fac, room |-> room,
   type |-> type, year |-> year, batch |-> batch,
   duration |-> getSlotDuration(time), semester |-> TargetSemester,
   isFillIn |-> FALSE]

MaxWeekSlots == 4
\* the cells of the week the lectures are drawn from: three days, the bands
\* 8:10-9:10, 9:10-10:10, 10:25-11:20 and 1:05-2:00
WeekBands == <<1, 2, 3, 5>>
WeekCells ==
  Concat([d \in 1..3 |-> [b \in 1..Len(WeekBands) |-> <<d, WeekBands[b]>>]])
TaughtBy == [S1 |-> "F1", S2 |-> "F2", S3 |-> "F1"]

\* slots of another cohort held next to the lectures of the target cohort
OtherCohortSlots ==
  {<<>>,
   <<PlacedSlot("TE", "T1", "F2", 2, ALL_THEORY_SLOTS[1], "C2", "theory", NoBatch)>>,
   <<PlacedSlot("TE", "T1 Lab", "F1", 3, MORNING_LAB_SLOTS[1], "L1", "lab", "A")>>}

\* the lectures of the target cohort in its classroom, at most one per cell
WeekLectures(cells, subjectAt) ==
  LET used == SelectSeq(WeekCells, LAMBDA c : c \in cells)
  IN  [k \in 1..Len(used) |->
         PlacedSlot(TargetYear, subjectAt[used[k]], TaughtBy[subjectAt[used[k]]],
                    used[k][1], ALL_THEORY_SLOTS[used[k][2]], "C1", "theory",
                    NoBatch)]

NoDoubleBooking ==
  \A p \in SlotPairs :
    LET a == generatedSlots[p[1]]
        b == generatedSlots[p[2]]
    IN  ~(a.day = b.day /\ ClockOverlap(a.time, b.time) /\ SharedResource(a, b))

NoAdjacentRepeat ==
  \A p \in SlotPairs :
    SameSubjectSameDay(generatedSlots[p[1]], generatedSlots[p[2]])
      => ~AdjacentBands(generatedSlots[p[1]].time, generatedSlots[p[2]].time)

\* optimizeDistribution is entered on a week that holds no double booking and
\* no adjacent repeat
InitOptimize ==
  /\ \E cells \in SUBSET {WeekCells[k] : k \in 1..Len(WeekCells)} :
       /\ Cardinality(cells) <= MaxWeekSlots
       /\ \E subjectAt \in [cells -> {"S1", "S2", "S3"}], other \in OtherCohortSlots :
            generatedSlots = WeekLectures(cells, subjectAt) \o other
  /\ NoDoubleBooking /\ NoAdjacentRepeat
  /\ subjects = <<Subject("S1", "SE", 2, 0, "F1"), Subject("S2", "SE", 2, 0, "F2"),
                  Subject("S3", "SE", 2, 0, "F1")>>
  /\ faculty = Staff
  /\ classrooms = OneClassroom
  /\ labs = <<"L1">>
  /\ constraints = MorningOnly
  /\ advisor = <<Unusable>>
  /\ conflicts = <<>>
  /\ analysisResult = NullAnalysis
  /\ unscheduledLectures = <<>>
  /\ sortedPool = <<>>
  /\ unscheduledLabs = <<>>
  /\ path = "ai"
  /\ cell = <<1, 1>>
  /\ recIdx = 1
  /\ result = <<>>
  /\ cache = {}
  /\ now = 0
  /\ call = NoCall
  /\ suspended = 0
  /\ swapsMade = 0
  /\ pc = "optimize"

NextOptimize ==
  \/ optimizeSwap
  \/ optimizeEnd

SpecOptimize == InitOptimize /\ [][NextOptimize]_vars

-----------------------------------------------------------------------------
(* Direct calls of the helpers: the overlap test of the two generators,    *)
(* the pool builders and ConstraintSolver.validateTimetable                *)

SeqToSet(seq) == {seq[i] : i \in 1..Len(seq)}

\* the band strings of the two generators
GridBands ==
  SeqToSet(MORNING_THEORY_SLOTS) \cup SeqToSet(AFTERNOON_THEORY_SLOTS)
  \cup SeqToSet(MORNING_LAB_SLOTS) \cup SeqToSet(AFTERNOON_LAB_SLOTS)
  \cup SeqToSet(ALL_THEORY_SLOTS) \cup SeqToSet(THEORY_SLOTS) \cup SeqToSet(LAB_SLOTS)

\* '10:10-10:25' (the break after '8:10-10:10') and '8:40-9:40'
OffGridBands == {Band(10,10,10,25), Band(8,40,9,40)}

\* 'TBD' (also ''), '8:10', '8:10-abc', 'abc-9:10'
MalformedTimes ==
  { <<<<>>>>, <<<<8,10>>>>, << <<8,10>>, <<>> >>, << <<>>, <<9,10>> >> }

TimeStrings == GridBands \cup OffGridBands \cup MalformedTimes

callDoTimesOverlap ==
  /\ pc = "calls"
  /\ \E a \in TimeStrings, b \in TimeStrings :
       call' = [fn |-> "doTimesOverlap", args |-> <<a, b>>,
                ret |-> doTimesOverlap(a, b)]
  /\ pc' = "called"
  /\ UNCHANGED <<swapsMade, suspended, inputs, generatedSlots, conflicts, analysisResult,
                 unscheduledLectures, sortedPool, unscheduledLabs, path, cell,
                 recIdx, result, advisor, cache, now>>

callPlainDoTimesOverlap ==
  /\ pc = "calls"
  /\ \E a \in TimeStrings, b \in TimeStrings :
       call' = [fn |-> "TimetableGenerator.doTimesOverlap", args |-> <<a, b>>,
                ret |-> PlainDoTimesOverlap(a, b)]
  /\ pc' = "called"
  /\ UNCHANGED <<swapsMade, suspended, inputs, generatedSlots, conflicts, analysisResult,
                 unscheduledLectures, sortedPool, unscheduledLabs, path, cell,
                 recIdx, result, advisor, cache, now>>

\* generateSlotsWithAI: the two pools of the subjects of the target year and
\* semester
callCreatePools ==
  /\ pc = "calls"
  /\ call' = [fn |-> "createPools", args |-> subjects,
              ret |-> [lectures |-> createLecturePool(relevantSubjects),
                       labs |-> createLabPool(relevantSubjects)]]
  /\ pc' = "called"
  /\ UNCHANGED <<swapsMade, suspended, inputs, generatedSlots, conflicts, analysisResult,
                 unscheduledLectures, sortedPool, unscheduledLabs, path, cell,
                 recIdx, result, advisor, cache, now>>

\* TimetableGenerator.generateTimetable: the two pools of all its subjects
callPlainCreatePools ==
  /\ pc = "calls"
  /\ call' = [fn |-> "TimetableGenerator.createPools", args |-> subjects,
              ret |-> [lectures |-> PlainCreateLecturePool,
                       labs |-> PlainCreateLabPool]]
  /\ pc' = "called"
  /\ UNCHANGED <<swapsMade, suspended, inputs, generatedSlots, conflicts, analysisResult,
                 unscheduledLectures, sortedPool, unscheduledLabs, path, cell,
                 recIdx, result, advisor, cache, now>>

-----------------------------------------------------------------------------
(* ConstraintSolver *)

MaxSlots == 2

Rule(id, type, weight) == [id |-> id, type |-> type, weight |-> weight]
\* a rule added by addCustomRule whose validate returns a fixed verdict
CustomRule(id, type, weight, verdict) ==
  [id |-> id, type |-> type, weight |-> weight, verdict |-> verdict]

initializeDefaultRules ==
  << Rule("no-faculty-conflict", "hard", 100),
     Rule("no-room-conflict", "hard", 100),
     Rule("no-student-conflict", "hard", 100),
     Rule("faculty-max-hours", "soft", 80),
     Rule("no-back-to-back-labs", "soft", 70),
     Rule("lab-afternoon-preference", "soft", 60),
     Rule("faculty-preferred-slots", "soft", 50) >>

addCustomRule(rules, rule) == Append(rules, rule)
removeRule(rules, ruleId) == SelectSeq(rules, LAMBDA r : r.id # ruleId)

\* parseInt(slot.time.split(':')[0]): the digits before the first ':'
HourOf(time) == IF Len(time) >= 1 /\ Len(time[1]) = 2 THEN time[1][1] ELSE NaN
\* a >= b and a < b of JavaScript numbers: false when a is NaN
NumAtLeast(a, b) == a # NaN /\ a >= b
NumBelow(a, b) == a # NaN /\ a < b

\* rule.validate(slot, allSlots, context)
RuleValidate(rule, slot, allSlots, context) ==
  LET known == SelectSeq(context.faculty, LAMBDA f : f.name = slot.faculty)
      hour == HourOf(slot.time)
      timeSlots == << Band(1,15,3,15), Band(3,15,5,15) >>
      currentIndex == IndexOf(timeSlots, slot.time)
      adjacentTimes == {timeSlots[j] : j \in {currentIndex, currentIndex + 2}
                                            \cap (1..Len(timeSlots))}
  IN  CASE rule.id = "no-faculty-conflict" ->
             ~Some(allSlots, LAMBDA e :
                 e.faculty = slot.faculty /\ e.day = slot.day
                 /\ e.time = slot.time /\ e.id # slot.id)
        [] rule.id = "no-room-conflict" ->
             ~Some(allSlots, LAMBDA e :
                 e.room = slot.room /\ e.day = slot.day
                 /\ e.time = slot.time /\ e.id # slot.id)
        [] rule.id = "no-student-conflict" ->
             ~Some(allSlots, LAMBDA e :
                 e.year = slot.year /\ e.batch = slot.batch /\ e.day = slot.day
                 /\ e.time = slot.time /\ e.id # slot.id)
        [] rule.id = "faculty-max-hours" ->
             IF Len(known) = 0 THEN TRUE
             ELSE LET mine == SelectSeq(allSlots, LAMBDA e :
                                e.faculty = slot.faculty /\ e.day = slot.day)
                  IN  SumSeq([i \in 1..Len(mine) |-> mine[i].duration])
                        <= known[1].maxHoursPerDay
        [] rule.id = "no-back-to-back-labs" ->
             IF slot.type # "lab" \/ currentIndex = -1 THEN TRUE
             ELSE ~Some(allSlots, LAMBDA e :
                      e.faculty = slot.faculty /\ e.day = slot.day
                      /\ e.type = "lab" /\ e.time \in adjacentTimes
                      /\ e.id # slot.id)
        [] rule.id = "lab-afternoon-preference" ->
             IF slot.type # "lab" THEN TRUE ELSE NumAtLeast(hour, 13)
        [] rule.id = "faculty-preferred-slots" ->
             IF Len(known) = 0 THEN TRUE
             ELSE IF Len(known[1].preferredSlots) = 0 THEN TRUE
             ELSE Some(known[1].preferredSlots, LAMBDA pref :
                    \/ (pref = "Morning" /\ NumAtLeast(hour, 8) /\ NumBelow(hour, 12))
                    \/ (pref = "Afternoon" /\ NumAtLeast(hour, 12)
                        /\ NumBelow(hour, 17))
                    \/ (pref = "Evening" /\ NumAtLeast(hour, 17)))
        [] OTHER -> rule.verdict

\* the conflict validateTimetable makes of a failing (slot, rule) pair; the
\* message is the rule's text about the slot
SolverConflict(rule, slot) ==
  [type |-> IF rule.type = "hard" THEN "error" ELSE "warning",
   message |-> <<rule.id, slot.faculty, slot.room, slot.subject, slot.time, slot.day>>,
   severity |-> IF rule.type = "hard" THEN "high" ELSE "medium",
   affectedEntities |-> <<slot.faculty, slot.subject, slot.room>>]

\* a plausible slip: a soft rule that passes is not rewarded
SoftPassScoreNone(rule) == 0
\* score += rule.weight
SoftPassScore(rule) == rule.weight

\* the two nested loops from the k-th (slot, rule) pair on;
\* acc = [conflicts, score, hardConstraintViolations]
RECURSIVE ValidateFrom(_, _, _, _, _)
ValidateFrom(slots, rules, context, k, acc) ==
  IF k > Len(slots) * Len(rules) THEN acc
  ELSE LET slot == slots[((k - 1) \div Len(rules)) + 1]
           rule == rules[((k - 1) % Len(rules)) + 1]
           isValid == RuleValidate(rule, slot, slots, context)
       IN  ValidateFrom(slots, rules, context, k + 1,
             IF ~isValid
             THEN [conflicts |-> Append(acc.conflicts, SolverConflict(rule, slot)),
                   score |-> IF rule.type = "hard" THEN acc.score
                             ELSE acc.score - rule.weight,
                   hardConstraintViolations |->
                     IF rule.type = "hard" THEN acc.hardConstraintViolations + 1
                     ELSE acc.hardConstraintViolations]
             ELSE IF rule.type = "soft"
             THEN [acc EXCEPT !.score = @ + SoftPassScore(rule)]
             ELSE acc)

\* none of the rules writes to the slots: slotsAfter is the list as the
\* caller finds it after the call
validateTimetable(slots, rules, context) ==
  LET acc == ValidateFrom(slots, rules, context, 1,
               [conflicts |-> <<>>, score |-> 0, hardConstraintViolations |-> 0])
  IN  [isValid |-> acc.hardConstraintViolations = 0,
       conflicts |-> acc.conflicts,
       score |-> acc.score,
       slotsAfter |-> slots]

SolverSlot(id, day, time, subject, fac, room, type, batch, duration) ==
  [id |-> id, day |-> day, time |-> time, subject |-> subject, faculty |-> fac,
   room |-> room, type |-> type, year |-> TargetYear, batch |-> batch,
   duration |-> duration]

\* a lab, a lecture inside its band, a lab of another batch at the same time,
\* the lab band after it, a morning lecture, a lab written in 24-hour form
SolverSlots ==
  {SolverSlot("a", "Monday", Band(1,15,3,15), "S1 Lab", "F1", "L1", "lab", "A", 2),
   SolverSlot("b", "Monday", Band(1,15,2,15), "S2", "F1", "C1", "theory", NoBatch, 1),
   SolverSlot("c", "Monday", Band(1,15,3,15), "S1 Lab", "F1", "L2", "lab", "B", 2),
   SolverSlot("d", "Monday", Band(3,15,5,15), "S3 Lab", "F1", "L1", "lab", "A", 2),
   SolverSlot("e", "Tuesday", Band(8,0,9,0), "S2", "F2", "C1", "theory", NoBatch, 1),
   SolverSlot("f", "Monday", Band(13,15,15,15), "S4 Lab", "F2", "L2", "lab", "C", 2)}

SlotLists == UNION {[1..k -> SolverSlots] : k \in 0..MaxSlots}

SolverContexts ==
  {[subjects |-> <<>>,
    faculty |-> <<[name |-> "F1", maxHoursPerDay |-> 2, preferredSlots |-> <<>>],
                  [name |-> "F2", maxHoursPerDay |-> 4,
                   preferredSlots |-> <<"Morning">>]>>],
   [subjects |-> <<>>,
    faculty |-> <<[name |-> "F1", maxHoursPerDay |-> 4,
                   preferredSlots |-> <<"Evening", "Afternoon">>]>>]}

RuleSets ==
  {initializeDefaultRules,
   removeRule(initializeDefaultRules, "lab-afternoon-preference"),
   addCustomRule(initializeDefaultRules, CustomRule("custom-hard", "hard", 100, FALSE)),
   addCustomRule(removeRule(initializeDefaultRules, "no-room-conflict"),
                 CustomRule("custom-soft", "soft", 10, TRUE))}

callValidateTimetable ==
  /\ pc = "calls"
  /\ \E slots \in SlotLists, rules \in RuleSets, context \in SolverContexts :
       call' = [fn |-> "validateTimetable",
                args |-> [slots |-> slots, rules |-> rules, context |-> context],
                ret |-> validateTimetable(slots, rules, context)]
  /\ pc' = "called"
  /\ UNCHANGED <<swapsMade, suspended, inputs, generatedSlots, conflicts, analysisResult,
                 unscheduledLectures, sortedPool, unscheduledLabs, path, cell,
                 recIdx, result, advisor, cache, now>>

-----------------------------------------------------------------------------
(* The helpers called directly, once, on every input of the model *)

PoolSubject(name, year, semester, th, lh) ==
  [name |-> name, year |-> year, semester |-> semester, theoryHours |-> th,
   labHours |-> lh, faculty |-> "F1"]

\* subjects of the target year and semester, of another year, of another
\* semester
InScopeSubjects ==
  {PoolSubject("S1", TargetYear, TargetSemester, th, lh) :
     th \in 0..MaxTheoryHours, lh \in 0..3}
OtherYearSubject == PoolSubject("S2", "TE", TargetSemester, 1, 2)
OtherSemesterSubject == PoolSubject("S3", TargetYear, TargetSemester + 1, 2, 1)

PoolCatalogs ==
  {<<>>} \cup {<<a>> : a \in InScopeSubjects}
  \cup {<<a, OtherYearSubject>> : a \in InScopeSubjects}
  \cup {<<OtherSemesterSubject, a>> : a \in InScopeSubjects}
  \cup {<<OtherSemesterSubject, a, OtherYearSubject>> : a \in InScopeSubjects}

InitCalls ==
  \E c \in PoolCatalogs :
    /\ InitWith(Scenario(c, OneClassroom, <<"L1">>, MorningOnly, <<Unusable>>))
    /\ pc = "calls"

NextCalls ==
  \/ callDoTimesOverlap
  \/ callPlainDoTimesOverlap
  \/ callCreatePools
  \/ callPlainCreatePools
  \/ callValidateTimetable

SpecCalls == InitCalls /\ [][NextCalls]_vars

-----------------------------------------------------------------------------
(* Properties of the helpers *)

OverlapCall == call.fn \in {"doTimesOverlap", "TimetableGenerator.doTimesOverlap"}
WellFormedBands == GridBands \cup OffGridBands

\* C14: for every pair of bands of the grid vocabulary of the two generators
\* (and the bands '10:10-10:25' and '8:40-9:40'), doTimesOverlap of either
\* generator is true exactly when the two clock intervals, afternoon bands
\* read as p.m., intersect in more than a boundary point.
C14_OverlapOnGrid ==
  (OverlapCall /\ call.args[1] \in WellFormedBands
               /\ call.args[2] \in WellFormedBands) =>
    call.ret = ClockOverlap(call.args[1], call.args[2])

\* a lab band and a lecture band inside it, both in 12-hour form, overlap; and
\* two bands that touch do not
C14_Witness ==
  \/ /\ call.fn = "doTimesOverlap"
     /\ call.args = <<Band(1,5,2,55), Band(2,0,2,55)>>
     /\ call.ret = TRUE
  \/ /\ call.fn = "doTimesOverlap"
     /\ call.args = <<Band(8,10,10,10), Band(10,10,10,25)>>
     /\ call.ret = FALSE

\* C15: doTimesOverlap of the AI generator returns true whenever one of the
\* two strings is not a start-end pair of HHMM values.
C15_MalformedOverlaps ==
  (call.fn = "doTimesOverlap"
   /\ (~IsRange(call.args[1]) \/ ~IsRange(call.args[2]))) =>
    call.ret = TRUE

\* C18: validateTimetable evaluates every slot against every registered rule:
\* isValid is true exactly when no (slot, hard rule) pair fails, score is the
\* sum over the (slot, soft rule) pairs of +weight for a pass and -weight for
\* a failure, there is one conflict per failing pair (error/high for a hard
\* rule, warning/medium for a soft one), and the slot list is unchanged.
C18_SolverAggregates ==
  call.fn = "validateTimetable" =>
    LET sl == call.args.slots
        ru == call.args.rules
        cx == call.args.context
        r == call.ret
        Fails(i, j) == ~RuleValidate(ru[j], sl[i], sl, cx)
        failing(type) == {p \in (1..Len(sl)) \X (1..Len(ru)) :
                            ru[p[2]].type = type /\ Fails(p[1], p[2])}
        Contribution(i, j) ==
          IF ru[j].type # "soft" THEN 0
          ELSE IF Fails(i, j) THEN 0 - ru[j].weight ELSE ru[j].weight
    IN  /\ r.isValid = (failing("hard") = {})
        /\ r.score = SumSeq([i \in 1..Len(sl) |->
                        SumSeq([j \in 1..Len(ru) |-> Contribution(i, j)])])
        /\ Len(r.conflicts)
             = Cardinality(failing("hard")) + Cardinality(failing("soft"))
        /\ Count(r.conflicts, LAMBDA c : c.type = "error" /\ c.severity = "high")
             = Cardinality(failing("hard"))
        /\ Count(r.conflicts, LAMBDA c : c.type = "warning" /\ c.severity = "medium")
             = Cardinality(failing("soft"))
        /\ r.slotsAfter = sl

\* two slots, hard and soft failures and soft passes in one call
C18_Witness ==
  /\ call.fn = "validateTimetable"
  /\ Len(call.args.slots) = 2
  /\ ~call.ret.isValid
  /\ Some(call.ret.conflicts, LAMBDA c : c.type = "warning")
  /\ call.ret.score > 0

\* C19: with the default rules, validateTimetable returns isValid = false
\* whenever two slots with different ids lie on the same day, have
\* overlapping time ranges and share the faculty, the room, or the year and
\* batch, also when their time strings differ.
C19_HardRulesSeeOverlap ==
  (call.fn = "validateTimetable" /\ call.args.rules = initializeDefaultRules) =>
    LET sl == call.args.slots
    IN  (\E i, j \in 1..Len(sl) :
           /\ sl[i].id # sl[j].id /\ sl[i].day = sl[j].day
           /\ ClockOverlap(sl[i].time, sl[j].time)
           /\ \/ sl[i].faculty = sl[j].faculty
              \/ sl[i].room = sl[j].room
              \/ (sl[i].year = sl[j].year /\ sl[i].batch = sl[j].batch))
        => ~call.ret.isValid

\* the least k with 2k >= n
CeilHalf(n) == CHOOSE k \in 0..n : 2 * k >= n /\ 2 * (k - 1) < n

\* C20: the pool builders emit, for every subject in scope, exactly
\* theoryHours lecture units and ceil(labHours / 2) lab units for each of the
\* batches A, B, C, and nothing for a subject outside the target year and
\* semester (the plain generator has no target: all its subjects are in scope).
C20_PoolUnits ==
  call.fn \in {"createPools", "TimetableGenerator.createPools"} =>
    /\ \A i \in 1..Len(call.args) :
         LET s == call.args[i]
             inScope == \/ call.fn = "TimetableGenerator.createPools"
                        \/ (s.year = TargetYear /\ s.semester = TargetSemester)
             blocks == IF inScope THEN CeilHalf(s.labHours) ELSE 0
         IN  /\ Count(call.ret.lectures, LAMBDA u : u = s.name)
                  = IF inScope THEN s.theoryHours ELSE 0
             /\ \A b \in {"A", "B", "C"} :
                  Count(call.ret.labs, LAMBDA u : u.subject = s.name /\ u.batch = b)
                    = blocks
             /\ Count(call.ret.labs, LAMBDA u : u.subject = s.name) = 3 * blocks
    /\ \A n \in 1..Len(call.ret.lectures) :
         \E i \in 1..Len(call.args) : call.args[i].name = call.ret.lectures[n]

\* a subject with an odd number of lab hours between two subjects out of scope
C20_Witness ==
  /\ call.fn = "createPools"
  /\ Len(call.args) = 3
  /\ call.args[2].labHours = 3 /\ call.args[2].theoryHours = 2
  /\ Len(call.ret.labs) = 6 /\ Len(call.ret.lectures) = 2

-----------------------------------------------------------------------------
(* The AI-assisted path without advice *)

\* C23: for a catalog with at least one subject and one classroom in scope,
\* the AI-assisted path run with an advisor that returns no recommendations
\* accepts the same set of slots as the fallback path run on that catalog.
C23_NoAdviceAsFallback ==
  (/\ pc = "done" /\ path = "ai"
   /\ analysisResult.recommendedSlots = <<>>
   /\ Len(relevantSubjects) >= 1 /\ Len(yearClassrooms) >= 1) =>
    SeqToSet(lastResult.slots) = SeqToSet(FallbackFromEmpty.slots)
-----------------------------------------------------------------------------
(* Properties of optimizeDistribution *)

\* C24: the slot that a swap brings to the source day carries a subject that
\* the source day does not hold yet, so no swap creates a same-day duplicate
\* of the incoming subject on the source day.
C24_IncomingSubjectIsNew ==
  [][optimizeSwap =>
       LET sw == FirstSwap(generatedSlots, TargetYear)
       IN  Count(slotsByDay(generatedSlots, TargetYear, sw.move.day),
                 LAMBDA s : s.subject = sw.cand.subject) = 0]_vars

LectureCounts ==
  [n \in {"S1", "S2", "S3", "T1"} |->
     Count(generatedSlots, LAMBDA s : s.type = "theory" /\ s.subject = n)]

Placement(slot) == <<slot.id, slot.day, slot.time, slot.room, slot.year, slot.type>>

\* C25: from a week without double booking and without adjacent repeat,
\* every swap of optimizeDistribution leaves the week without double booking
\* and without adjacent repeat and keeps every subject's lecture count; a
\* swap changes two slots, never their day, time, room or cohort; one
\* iteration makes one swap and there are at most 20 swaps.
C25_SwapsKeepTheWeekSafe ==
  /\ [](NoDoubleBooking /\ NoAdjacentRepeat /\ swapsMade <= 20)
  /\ [][optimizeSwap =>
          /\ LectureCounts' = LectureCounts
          /\ swapsMade' = swapsMade + 1
          /\ Len(generatedSlots') = Len(generatedSlots)
          /\ \A k \in 1..Len(generatedSlots) :
               Placement(generatedSlots'[k]) = Placement(generatedSlots[k])
          /\ Cardinality({k \in 1..Len(generatedSlots) :
                            generatedSlots'[k] # generatedSlots[k]}) = 2]_vars

\* the optimizer has swapped twenty times and stopped at the cap
C25_Witness ==
  /\ pc = "optimized" /\ swapsMade = 20
  /\ \E k \in 1..Len(generatedSlots) :
       generatedSlots[k].id[3] # generatedSlots[k].subject
-----------------------------------------------------------------------------
(* What the validation pass and the final report say *)

Constructed == pc = "done" /\ lastResult.generationStats.consistencyHash.kind = "sha256"

AcceptedTheory(name) ==
  Count(lastResult.slots, LAMBDA s :
    s.type = "theory" /\ s.subject = name /\ s.year = TargetYear)

\* the group keys of validateCriticalConstraints that belong to a subject
SubjectKeys(name) == {name \o "-" \o TargetYear} \cup LabKeys(name)

TheoryCountReport(name, kind) ==
  Some(lastResult.conflicts, LAMBDA c : c.kind = kind /\ c.who \in SubjectKeys(name))

Reported(kind, name, batch) ==
  SelectSeq(lastResult.conflicts, LAMBDA c :
    c.kind = kind /\ c.who = name /\ c.batch = batch)

ScheduleStep ==
  \/ scheduleLabsConcurrently
  \/ scheduleLecturesWithAI
  \/ scheduleLecturesFallback
  \/ fillRemainingLectureSlots

\* C27: when construction ends, each lab unit left in the pool yields one
\* error conflict of high severity and the lecture units left yield, per
\* subject of the cohort, one warning whose count is the number of units
\* left; a unit that found no band is reported so, and no pass places a unit
\* on a band where its faculty, room or cohort is already booked.
C27_RemainingUnitsReported ==
  /\ [](Constructed =>
         \A i \in 1..Len(relevantSubjects) :
           LET name == relevantSubjects[i].name
               left == Count(unscheduledLectures, LAMBDA l : l = name)
               warned == Reported("Unscheduled Lectures", name, NoBatch)
           IN  /\ \A b \in {"A", "B", "C"} :
                    LET errs == Reported("Unscheduled Lab", name, b)
                    IN  /\ Len(errs) = Count(unscheduledLabs, LAMBDA l :
                                         l.subject = name /\ l.batch = b)
                        /\ \A k \in 1..Len(errs) :
                             errs[k].type = "error" /\ errs[k].severity = "high"
               /\ Len(warned) = (IF left > 0 THEN 1 ELSE 0)
               /\ \A k \in 1..Len(warned) :
                    warned[k].type = "warning" /\ warned[k].n = left)
  /\ [][ScheduleStep =>
          \A k \in (Len(generatedSlots) + 1)..Len(generatedSlots') :
            \A j \in 1..(k - 1) :
              LET a == generatedSlots'[j]
                  b == generatedSlots'[k]
              IN  ~(a.day = b.day /\ ClockOverlap(a.time, b.time)
                    /\ SharedResource(a, b))]_vars

\* two subjects of one faculty ask for more bands than the week has: the
\* week is full and the units that found no band are reported
C27_Witness ==
  /\ Constructed /\ Len(relevantSubjects) = 2
  /\ Len(unscheduledLectures) > 0
  /\ Len(lastResult.slots) = 48
  /\ Len(Reported("Unscheduled Lectures", "S2", NoBatch)) = 1
\* ---------------------------------------------------------------------------
\* Lab sessions of one day
\* ---------------------------------------------------------------------------

\* the advisor recommends no lab session
NoSeededLabs ==
  \A i \in 1..Len(advisor) :
    \A k \in 1..Len(advisor[i].recs) : advisor[i].recs[k].type # "lab"

LabIndices == {i \in 1..Len(generatedSlots) : generatedSlots[i].type = "lab"}

\* C28: in a run whose advisor recommends no lab session, at every point of the
\* construction no two accepted lab sessions of one day belong to the same
\* cohort year and batch, whatever their subjects.
C28_OneLabPerBatchPerDay ==
  NoSeededLabs =>
    \A i \in LabIndices, j \in LabIndices :
      (i # j /\ generatedSlots[i].day = generatedSlots[j].day
             /\ generatedSlots[i].year = generatedSlots[j].year)
        => generatedSlots[i].batch # generatedSlots[j].batch

\* a finished run in which one batch has lab sessions of two subjects (on two
\* days) and two batches have their labs on the same day
C28_Witness ==
  /\ pc = "done" /\ NoSeededLabs
  /\ \E i \in LabIndices, j \in LabIndices :
       /\ generatedSlots[i].batch = generatedSlots[j].batch
       /\ generatedSlots[i].subject # generatedSlots[j].subject
       /\ generatedSlots[i].day # generatedSlots[j].day
  /\ \E i \in LabIndices, j \in LabIndices :
       /\ generatedSlots[i].batch # generatedSlots[j].batch
       /\ generatedSlots[i].day = generatedSlots[j].day

\* the four lab bands of the two band sets, in the order of the day
GlobalLabBands ==
  << Band(8,10,10,10), Band(10,25,12,15), Band(1,5,2,55), Band(3,5,4,55) >>

\* C29: in a run whose advisor recommends no lab session, on the Morning and
\* on the Afternoon band set, at every point of the construction no faculty has
\* accepted lab sessions on one day in two bands that follow each other in the
\* order 8:10-10:10, 10:25-12:15, 1:05-2:55, 3:05-4:55.
C29_NoConsecutiveLabsForFaculty ==
  NoSeededLabs =>
    \A i \in LabIndices, j \in LabIndices :
      (generatedSlots[i].day = generatedSlots[j].day
         /\ generatedSlots[i].faculty = generatedSlots[j].faculty)
        => \A b \in 1..(Len(GlobalLabBands) - 1) :
             ~(generatedSlots[i].time = GlobalLabBands[b]
               /\ generatedSlots[j].time = GlobalLabBands[b + 1])

\* a finished Afternoon run in which one faculty teaches labs in the first and
\* in the third band of a day
C29_Witness ==
  /\ pc = "done" /\ NoSeededLabs
  /\ getBatchTypeForYear(TargetYear) = "Afternoon"
  /\ \E i \in LabIndices, j \in LabIndices :
       /\ generatedSlots[i].day = generatedSlots[j].day
       /\ generatedSlots[i].faculty = generatedSlots[j].faculty
       /\ generatedSlots[i].time = Band(10,25,12,15)
       /\ generatedSlots[j].time = Band(3,5,4,55)

\* ---------------------------------------------------------------------------
\* Fill-in slots
\* ---------------------------------------------------------------------------

\* the slots the step about to be taken appends
AppendedSlots ==
  {generatedSlots'[k] : k \in (Len(generatedSlots) + 1)..Len(generatedSlots')}

\* the lecture bands outside the band set of the cohort
ForeignBands ==
  {ALL_THEORY_SLOTS[b] : b \in 1..Len(ALL_THEORY_SLOTS)}
    \ {lectureBands[b] : b \in 1..Len(lectureBands)}

FillInSlots ==
  {generatedSlots[k] : k \in {i \in 1..Len(generatedSlots) : generatedSlots[i].isFillIn}}

\* the flag is set on the slots the fill-in pass accepts and on no others
FlagMarksTheFillPass ==
  [][(Len(generatedSlots') > Len(generatedSlots)
      /\ SubSeq(generatedSlots', 1, Len(generatedSlots)) = generatedSlots)
       => \A s \in AppendedSlots : s.isFillIn <=> (pc = "fill")]_vars

\* without recommendations a fill-in slot is a lecture in the classroom of the
\* cohort at a band outside the band set of the cohort
FillInOutsideNativeBands ==
  Unadvised =>
    \A s \in FillInSlots :
      /\ s.type = "theory"
      /\ Len(yearClassrooms) > 0 /\ s.room = yearClassrooms[1].name
      /\ s.time \in ForeignBands

\* C30: a slot is flagged as fill-in exactly when the fill-in pass accepted it,
\* and with an advisor that recommends nothing every fill-in slot is a theory
\* slot in the classroom of the cohort at a lecture band outside the band set of
\* the cohort (3:05-4:00 or 4:00-4:55 for Morning, 8:10-9:10 or 9:10-10:10 for
\* Afternoon): no fill-in slot sits in a band of the cohort's own set.
C30_FillInSlots ==
  FlagMarksTheFillPass /\ [](FillInOutsideNativeBands)

====
